---- MODULE Spec2Model ----
(***************************************************************************)
(* A model of the sage ORM: the migration ledger of MigrationManager (one   *)
(* caller, and two callers running MigrateUp at once), the two             *)
(* WithTransaction wrappers, Create / Find / Update / Delete, the two      *)
(* query builders, Preload / Associate / Dissociate, and CreateNested /    *)
(* UpdateNested / DeleteNested with their per-relationship helpers.        *)
(* Storage is the external executor: every statement it runs may succeed   *)
(* or fail, which the actions take as an input. The components share no    *)
(* state; each has its own specification.                                  *)
(***************************************************************************)
EXTENDS Integers, Sequences, FiniteSets, TLC

\* ------------------------------------------------------------------------
\* Bounds
\* ------------------------------------------------------------------------

\* Largest id the ledger's SERIAL sequence hands out.
MaxId == 2
\* time.Now() returns a value of 1..MaxTime.
MaxTime == 2
\* Number of revisions of a migration's scripts AddMigration may register.
MaxRev == 2
\* A transactional block writes values of 0..MaxVal.
MaxVal == 1
\* The backend generates the identifiers 1..MaxKey.
MaxKey == 1
\* A caller chains up to MaxWhere Where calls and MaxHaving Having calls.
MaxWhere == 2
MaxHaving == 1
\* The join table holds up to MaxJoin rows of one pair.
MaxJoin == 1
\* CreateNested is called up to MaxRoots times, with up to MaxChildren posts,
\* and stores up to MaxChildRows child rows in all.
MaxRoots == 1
MaxChildren == 2
MaxChildRows == 3
\* A relationship map has up to MaxRels entries.
MaxRels == 2
\* Up to MaxCalls nested calls are made on the connection.
MaxCalls == 2

Names == {"m1", "m2"}
Times == 1..MaxTime
Revs == 1..MaxRev
Ids == 1..MaxId

\* Callers of MigrationManager; the sequential specification runs the first.
Procs == {"a", "b"}
SeqProcs == {"a"}

VARIABLES
    tableExists,   \* the ledger table has been created
    seq,           \* last value of the ledger's id sequence (SERIAL)
    ledger,        \* committed ledger rows: id -> row
    call,          \* per caller: the MigrationManager call in progress or just returned
    store,         \* WithTransaction: the committed rows the block's statements write
    wt,            \* WithTransaction: the call in progress or just returned
    table,         \* CRUD: the stored rows of the record's table, key -> data
    lastId,        \* CRUD: the last identifier the backend generated
    crud,          \* CRUD: the last call, its record, statements and result
    qb,            \* query builder: the builder a caller is filling in
    built,         \* query builder: results of Build() on the current state
    posts,         \* relationships: rows of posts, id -> user_id
    join,          \* relationships: rows of user_tags, <<user_id, tag_id>> -> count
    relCall,       \* relationships: the last call, or the Preload in progress
    users,         \* nested persistence: ids of the stored root rows
    rootSeq,       \* nested persistence: last id generated for users
    children,      \* nested persistence: stored child rows, id -> table and user_id
    childSeq,      \* nested persistence: last id generated for a child row
    companyOf,     \* nested persistence: users.company_id of the stored root rows
    userTags,      \* nested persistence: rows of user_tags, <<user_id, tag_id>> -> count
    nest           \* nested persistence: the last call, or the one in progress

migVars == <<tableExists, seq, ledger, call>>
txVars == <<store, wt>>
crudVars == <<table, lastId, crud>>
buildVars == <<qb, built>>
relVars == <<posts, join, relCall>>
nestedVars == <<users, rootSeq, children, childSeq, companyOf, userTags, nest>>
laterVars == <<buildVars, relVars, nestedVars>>
outsideBuild == <<migVars, txVars, crudVars, relVars, nestedVars>>
outsideRel == <<migVars, txVars, crudVars, buildVars, nestedVars>>
outsideNested == <<migVars, txVars, crudVars, buildVars, relVars>>
vars == <<tableExists, seq, ledger, call, store, wt, table, lastId, crud, qb, built,
          posts, join, relCall, users, rootSeq, children, childSeq, companyOf, userTags,
          nest>>

\* ------------------------------------------------------------------------
\* Migration ledger: values
\* ------------------------------------------------------------------------

\* applied_at TIMESTAMP (nullable), *time.Time: <<>> is NULL / nil, <<t>> a time.
NULL == <<>>
At(t) == <<t>>

UpScript(name, rev) == <<"up", name, rev>>
DownScript(name, rev) == <<"down", name, rev>>

\* A ledger row; description and created_at are read by no operation modelled.
Row(name, up, down, appliedAt) ==
    [Name |-> name, Up |-> up, Down |-> down, AppliedAt |-> appliedAt]

\* The Migration struct a query scans a row into.
Migration(l, id) ==
    [ID |-> id, Name |-> l[id].Name, Up |-> l[id].Up, Down |-> l[id].Down,
     AppliedAt |-> l[id].AppliedAt]

NoErr == [kind |-> "nil", name |-> ""]
Err(kind, name) == [kind |-> kind, name |-> name]

\* One statement as the storage executor saw it.
Stmt(stmt, id, script, tx) == [stmt |-> stmt, id |-> id, script |-> script, tx |-> tx]

IdleCall ==
    [op |-> "none", pc |-> "idle", migrations |-> <<>>, i |-> 1, tx |-> "none",
     writes |-> <<>>, err |-> NoErr, log |-> <<>>, pre |-> <<>>,
     afterUp |-> FALSE]

\* A call that starts: it remembers the ledger it started from and whether the
\* caller's previous call was a MigrateUp that returned nil.
StartCall(c, op, l) ==
    [IdleCall EXCEPT !.op = op, !.pre = l,
                     !.afterUp = (c.op = "MigrateUp" /\ c.pc = "done" /\ c.err = NoErr)]

Returned(c) == c.pc \in {"idle", "done"}

\* ------------------------------------------------------------------------
\* Migration ledger: queries
\* ------------------------------------------------------------------------

RECURSIVE PendingAsc(_, _)
PendingAsc(l, id) ==
    IF id > MaxId THEN <<>>
    ELSE (IF id \in DOMAIN l /\ l[id].AppliedAt = NULL
          THEN <<Migration(l, id)>> ELSE <<>>) \o PendingAsc(l, id + 1)

RECURSIVE PendingDesc(_, _)
PendingDesc(l, id) ==
    IF id < 1 THEN <<>>
    ELSE (IF id \in DOMAIN l /\ l[id].AppliedAt = NULL
          THEN <<Migration(l, id)>> ELSE <<>>) \o PendingDesc(l, id - 1)

RECURSIVE AllAsc(_, _)
AllAsc(l, id) ==
    IF id > MaxId THEN <<>>
    ELSE (IF id \in DOMAIN l THEN <<Migration(l, id)>> ELSE <<>>)
         \o AllAsc(l, id + 1)

RECURSIVE AppliedDesc(_, _)
AppliedDesc(l, id) ==
    IF id < 1 THEN <<>>
    ELSE (IF id \in DOMAIN l /\ l[id].AppliedAt # NULL
          THEN <<Migration(l, id)>> ELSE <<>>) \o AppliedDesc(l, id - 1)

RECURSIVE AppliedAsc(_, _)
AppliedAsc(l, id) ==
    IF id > MaxId THEN <<>>
    ELSE (IF id \in DOMAIN l /\ l[id].AppliedAt # NULL
          THEN <<Migration(l, id)>> ELSE <<>>) \o AppliedAsc(l, id + 1)

\* Mutants of the two queries: no WHERE clause, and the opposite ORDER BY.
GetPendingMigrationsNoWhere(l) == AllAsc(l, 1)
GetPendingMigrationsDesc(l) == PendingDesc(l, MaxId)
GetAppliedMigrationsAsc(l) == AppliedAsc(l, 1)

\* SELECT ... WHERE applied_at IS NULL ORDER BY id ASC
GetPendingMigrations(l) == PendingAsc(l, 1)

\* SELECT ... WHERE applied_at IS NOT NULL ORDER BY id DESC
GetAppliedMigrations(l) == AppliedDesc(l, MaxId)

\* ------------------------------------------------------------------------
\* Transactions on the ledger
\* ------------------------------------------------------------------------

\* The ledger with a transaction's applied_at updates in it.
ApplyWrites(l, writes) ==
    [id \in DOMAIN l |->
        IF id \in DOMAIN writes
        THEN [l[id] EXCEPT !.AppliedAt = writes[id]]
        ELSE l[id]]

\* UPDATE ... SET applied_at = v WHERE id = id, inside the transaction.
TxUpdate(writes, id, v) ==
    [k \in (DOMAIN writes) \cup {id} |-> IF k = id THEN v ELSE writes[k]]

\* Mutant of Rollback: the transaction's updates stay.
RollbackKeepsWrites(l, writes) == ApplyWrites(l, writes)

\* tx.Rollback(): the transaction's updates are discarded.
Rollback(l, writes) == l

\* tx.Commit() that succeeds.
Commit(l, writes) == ApplyWrites(l, writes)

\* ------------------------------------------------------------------------
\* MigrationManager: single-statement operations
\* ------------------------------------------------------------------------

\* A single-statement call that has returned: what it ran and what it returned.
Done(c, op, l, err, log) ==
    [IdleCall EXCEPT !.op = op, !.pc = "done", !.err = err, !.log = log]

HasName(l, name) == \E id \in DOMAIN l : l[id].Name = name
IdOfName(l, name) == CHOOSE id \in DOMAIN l : l[id].Name = name

Extend(l, id, row) ==
    [k \in (DOMAIN l) \cup {id} |-> IF k = id THEN row ELSE l[k]]

\* Mutant of Upsert: the conflict branch also writes applied_at (NULL, as the
\* INSERT's EXCLUDED row has it).
UpsertResetsAppliedAt(l, id, name, up, down) ==
    IF HasName(l, name)
    THEN [l EXCEPT ![IdOfName(l, name)] = Row(name, up, down, NULL)]
    ELSE Extend(l, id, Row(name, up, down, NULL))

\* INSERT INTO ledger (name, description, up, down, created_at) ...
\* ON CONFLICT (name) DO UPDATE SET description, up, down, created_at
Upsert(l, id, name, up, down) ==
    IF HasName(l, name)
    THEN [l EXCEPT ![IdOfName(l, name)].Up = up, ![IdOfName(l, name)].Down = down]
    ELSE Extend(l, id, Row(name, up, down, NULL))

CreateMigrationsTable(p, ok) ==
    /\ Returned(call[p])
    /\ tableExists' = (tableExists \/ ok)
    /\ call' = [call EXCEPT ![p] =
            Done(call[p], "CreateMigrationsTable", ledger,
                 IF ok THEN NoErr ELSE Err("exec", ""),
                 <<Stmt("createTable", 0, <<>>, FALSE)>>)]
    /\ UNCHANGED <<seq, ledger, txVars, crudVars, laterVars>>

\* The SERIAL default draws the next id before the conflict on name is seen,
\* so an id is used up on either branch.
AddMigration(p, name, rev, ok) ==
    /\ Returned(call[p])
    /\ seq < MaxId
    /\ LET good == ok /\ tableExists
           log == <<Stmt("upsert", seq + 1, UpScript(name, rev), FALSE)>>
       IN  /\ seq' = IF good THEN seq + 1 ELSE seq
           /\ ledger' = IF good
                        THEN Upsert(ledger, seq + 1, name,
                                    UpScript(name, rev), DownScript(name, rev))
                        ELSE ledger
           /\ call' = [call EXCEPT ![p] =
                   Done(call[p], "AddMigration", ledger,
                        IF good THEN NoErr ELSE Err("exec", ""), log)]
    /\ UNCHANGED <<tableExists, txVars, crudVars, laterVars>>

\* UPDATE ledger SET applied_at = now WHERE id = migrationID, on the database
\* itself; zero rows affected is "migration not found".
MarkMigrationAsApplied(p, id, t, ok) ==
    /\ Returned(call[p])
    /\ LET good == ok /\ tableExists
           found == id \in DOMAIN ledger
       IN  /\ ledger' = IF good /\ found
                        THEN [ledger EXCEPT ![id].AppliedAt = At(t)]
                        ELSE ledger
           /\ call' = [call EXCEPT ![p] =
                   Done(call[p], "MarkMigrationAsApplied", ledger,
                        IF ~good THEN Err("exec", "")
                        ELSE IF ~found THEN Err("migration not found", "")
                        ELSE NoErr,
                        <<Stmt("markApplied", id, <<>>, FALSE)>>)]
    /\ UNCHANGED <<tableExists, seq, txVars, crudVars, laterVars>>

\* UPDATE ledger SET applied_at = NULL WHERE id = migrationID
MarkMigrationAsUnapplied(p, id, ok) ==
    /\ Returned(call[p])
    /\ LET good == ok /\ tableExists
           found == id \in DOMAIN ledger
       IN  /\ ledger' = IF good /\ found
                        THEN [ledger EXCEPT ![id].AppliedAt = NULL]
                        ELSE ledger
           /\ call' = [call EXCEPT ![p] =
                   Done(call[p], "MarkMigrationAsUnapplied", ledger,
                        IF ~good THEN Err("exec", "")
                        ELSE IF ~found THEN Err("migration not found", "")
                        ELSE NoErr,
                        <<Stmt("markUnapplied", id, <<>>, FALSE)>>)]
    /\ UNCHANGED <<tableExists, seq, txVars, crudVars, laterVars>>

\* ------------------------------------------------------------------------
\* MigrateUp
\* ------------------------------------------------------------------------

\* The deferred tx.Rollback() of a call that returns an error.
Abort(c, err, log) ==
    [c EXCEPT !.pc = "done", !.err = err, !.log = log, !.tx = "rolledback",
              !.writes = <<>>]

\* CreateMigrationsTable, GetPendingMigrations, BeginTx: the call returns at
\* the first of them that fails.
MU_Start(p, outcome) ==
    /\ Returned(call[p])
    /\ LET c == StartCall(call[p], "MigrateUp", ledger)
           created == <<Stmt("createTable", 0, <<>>, FALSE)>>
           queried == Append(created, Stmt("selectPending", 0, <<>>, FALSE))
           migrations == GetPendingMigrations(ledger)
       IN  /\ tableExists' = (tableExists \/ outcome # "tableErr")
           /\ call' = [call EXCEPT ![p] =
                CASE outcome = "tableErr" ->
                       [c EXCEPT !.pc = "done", !.err = Err("exec", ""),
                                 !.log = created]
                  [] outcome = "queryErr" ->
                       [c EXCEPT !.pc = "done", !.err = Err("query", ""),
                                 !.log = queried]
                  [] outcome = "beginErr" ->
                       [c EXCEPT !.pc = "done", !.err = Err("begin", ""),
                                 !.log = queried, !.migrations = migrations]
                  [] OTHER ->
                       [c EXCEPT !.pc = IF migrations = <<>> THEN "commit" ELSE "up",
                                 !.log = Append(queried, Stmt("begin", 0, <<>>, TRUE)),
                                 !.migrations = migrations, !.tx = "open"]]
    /\ UNCHANGED <<seq, ledger, txVars, crudVars, laterVars>>

\* tx.ExecContext(ctx, migration.Up)
MU_ExecUp(p, ok) ==
    /\ call[p].op = "MigrateUp" /\ call[p].pc = "up"
    /\ LET c == call[p]
           m == c.migrations[c.i]
           log == Append(c.log, Stmt("up", m.ID, m.Up, TRUE))
       IN  IF ok
           THEN /\ call' = [call EXCEPT ![p] = [c EXCEPT !.pc = "mark", !.log = log]]
                /\ UNCHANGED ledger
           ELSE /\ call' = [call EXCEPT ![p] = Abort(c, Err("apply", m.Name), log)]
                /\ ledger' = Rollback(ledger, c.writes)
    /\ UNCHANGED <<tableExists, seq, txVars, crudVars, laterVars>>

\* tx.ExecContext(ctx, UPDATE ledger SET applied_at = now WHERE id = migration.ID)
MU_Mark(p, t, ok) ==
    /\ call[p].op = "MigrateUp" /\ call[p].pc = "mark"
    /\ LET c == call[p]
           m == c.migrations[c.i]
           log == Append(c.log, Stmt("markApplied", m.ID, <<>>, TRUE))
       IN  IF ok
           THEN /\ call' = [call EXCEPT ![p] =
                       [c EXCEPT !.pc = IF c.i = Len(c.migrations) THEN "commit" ELSE "up",
                                 !.i = c.i + 1, !.log = log,
                                 !.writes = TxUpdate(c.writes, m.ID, At(t))]]
                /\ UNCHANGED ledger
           ELSE /\ call' = [call EXCEPT ![p] = Abort(c, Err("markApplied", m.Name), log)]
                /\ ledger' = Rollback(ledger, c.writes)
    /\ UNCHANGED <<tableExists, seq, txVars, crudVars, laterVars>>

\* return tx.Commit(); a commit that fails leaves nothing of the transaction.
TxCommit(p, op, ok) ==
    /\ call[p].op = op /\ call[p].pc = "commit"
    /\ LET c == call[p]
           log == Append(c.log, Stmt("commit", 0, <<>>, TRUE))
       IN  IF ok
           THEN /\ call' = [call EXCEPT ![p] =
                       [c EXCEPT !.pc = "done", !.log = log, !.tx = "committed",
                                 !.writes = <<>>]]
                /\ ledger' = Commit(ledger, c.writes)
           ELSE /\ call' = [call EXCEPT ![p] = Abort(c, Err("commit", ""), log)]
                /\ ledger' = Rollback(ledger, c.writes)
    /\ UNCHANGED <<tableExists, seq, txVars, crudVars, laterVars>>

MU_Commit(p, ok) == TxCommit(p, "MigrateUp", ok)

\* ------------------------------------------------------------------------
\* MigrateDown
\* ------------------------------------------------------------------------

\* Mutant of NothingToRevert: the length check is gone, the call goes on.
NothingToRevertNever(migrations) == FALSE

\* if len(migrations) == 0 { return errors.New("no migrations to revert") }
NothingToRevert(migrations) == Len(migrations) = 0

\* GetAppliedMigrations, the length check, BeginTx.
MD_Start(p, outcome) ==
    /\ Returned(call[p])
    /\ LET c == StartCall(call[p], "MigrateDown", ledger)
           queried == <<Stmt("selectApplied", 0, <<>>, FALSE)>>
           migrations == GetAppliedMigrations(ledger)
       IN  call' = [call EXCEPT ![p] =
                CASE outcome = "queryErr" \/ ~tableExists ->
                       [c EXCEPT !.pc = "done", !.err = Err("query", ""),
                                 !.log = queried]
                  [] NothingToRevert(migrations) ->
                       [c EXCEPT !.pc = "done", !.err = Err("no migrations to revert", ""),
                                 !.log = queried]
                  [] outcome = "beginErr" ->
                       [c EXCEPT !.pc = "done", !.err = Err("begin", ""),
                                 !.log = queried, !.migrations = migrations]
                  [] OTHER ->
                       [c EXCEPT !.pc = "down",
                                 !.log = Append(queried, Stmt("begin", 0, <<>>, TRUE)),
                                 !.migrations = migrations, !.tx = "open"]]
    /\ UNCHANGED <<tableExists, seq, ledger, txVars, crudVars, laterVars>>

\* Mutant of MarkUnappliedIn: the update runs on the database, outside the
\* transaction.
MarkUnappliedOnDb(l, writes, id) ==
    [ledger |-> IF id \in DOMAIN l THEN [l EXCEPT ![id].AppliedAt = NULL] ELSE l,
     writes |-> writes,
     tx |-> FALSE]

\* tx.ExecContext(ctx, UPDATE ledger SET applied_at = NULL WHERE id = lastMigration.ID)
MarkUnappliedIn(l, writes, id) ==
    [ledger |-> l, writes |-> TxUpdate(writes, id, NULL), tx |-> TRUE]

\* tx.ExecContext(ctx, lastMigration.Down)
MD_ExecDown(p, ok) ==
    /\ call[p].op = "MigrateDown" /\ call[p].pc = "down"
    /\ LET c == call[p]
           m == c.migrations[1]
           log == Append(c.log, Stmt("down", m.ID, m.Down, TRUE))
       IN  IF ok
           THEN /\ call' = [call EXCEPT ![p] = [c EXCEPT !.pc = "mark", !.log = log]]
                /\ UNCHANGED ledger
           ELSE /\ call' = [call EXCEPT ![p] = Abort(c, Err("revert", m.Name), log)]
                /\ ledger' = Rollback(ledger, c.writes)
    /\ UNCHANGED <<tableExists, seq, txVars, crudVars, laterVars>>

MD_Mark(p, ok) ==
    /\ call[p].op = "MigrateDown" /\ call[p].pc = "mark"
    /\ LET c == call[p]
           m == c.migrations[1]
           r == MarkUnappliedIn(ledger, c.writes, m.ID)
           log == Append(c.log, Stmt("markUnapplied", m.ID, <<>>, r.tx))
       IN  IF ok
           THEN /\ call' = [call EXCEPT ![p] =
                       [c EXCEPT !.pc = "commit", !.log = log, !.writes = r.writes]]
                /\ ledger' = r.ledger
           ELSE /\ call' = [call EXCEPT ![p] = Abort(c, Err("markUnapplied", m.Name), log)]
                /\ ledger' = Rollback(ledger, c.writes)
    /\ UNCHANGED <<tableExists, seq, txVars, crudVars, laterVars>>

MD_Commit(p, ok) == TxCommit(p, "MigrateDown", ok)

\* ------------------------------------------------------------------------
\* WithTransaction: Connection.WithTransaction and Executor.WithTransaction
\* ------------------------------------------------------------------------

Keys == {"x", "y"}
Vals == 0..MaxVal
BodyErrors == {"e1", "e2"}

\* What a call returns: nil, an error, or a panic that leaves it.
Nil == [kind |-> "nil", val |-> ""]
Error(e) == [kind |-> "error", val |-> e]
Panic(v) == [kind |-> "panic", val |-> v]

IdleWt ==
    [kind |-> "none", pc |-> "idle", tx |-> "none", buf |-> <<>>,
     begins |-> 0, commits |-> 0, rollbacks |-> 0,
     body |-> Nil, result |-> Nil, pre |-> <<>>]

\* The rows with a transaction's writes in them.
Overlay(st, buf) == [k \in DOMAIN st |-> IF k \in DOMAIN buf THEN buf[k] ELSE st[k]]

\* Mutant of ConnectionAfterBody: the deferred function tests nothing and the
\* commit is reached on an error too.
ConnectionAfterBodyCommits(body) ==
    IF body.kind = "panic" THEN "Rollback" ELSE "Commit"

\* Connection.WithTransaction after fn(tx): return err (the deferred function
\* rolls back since err != nil), return tx.Commit(), or the deferred recover()
\* rolls back and panics again.
ConnectionAfterBody(body) ==
    CASE body.kind = "panic" -> "Rollback"
      [] body.kind = "error" -> "Rollback"
      [] OTHER -> "Commit"

\* Mutant of ExecutorAfterBody: the branches are swapped.
ExecutorAfterBodySwapped(body) ==
    CASE body.kind = "panic" -> "none"
      [] body.kind = "error" -> "Commit"
      [] OTHER -> "Rollback"

\* Executor.WithTransaction after fn(txExecutor): tx.Rollback() and return err,
\* or return tx.Commit(); a panic of fn passes through, no statement of the
\* function runs after it.
ExecutorAfterBody(body) ==
    CASE body.kind = "panic" -> "none"
      [] body.kind = "error" -> "Rollback"
      [] OTHER -> "Commit"

AfterBody(kind, body) ==
    IF kind = "Connection" THEN ConnectionAfterBody(body) ELSE ExecutorAfterBody(body)

\* tx, err := BeginTx(ctx, nil); if err != nil { return err }
WT_Begin(kind, ok) ==
    /\ wt.pc \in {"idle", "done"}
    /\ wt' = IF ok
             THEN [IdleWt EXCEPT !.kind = kind, !.pc = "body", !.tx = "open",
                                 !.begins = 1, !.pre = store]
             ELSE [IdleWt EXCEPT !.kind = kind, !.pc = "done", !.pre = store,
                                 !.result = Error("begin")]
    /\ UNCHANGED <<store, migVars, crudVars, laterVars>>

\* A statement of the caller's block, run on the transaction.
WT_BodyExec(k, v) ==
    /\ wt.pc = "body"
    /\ wt' = [wt EXCEPT !.buf =
                 [x \in (DOMAIN wt.buf) \cup {k} |-> IF x = k THEN v ELSE wt.buf[x]]]
    /\ UNCHANGED <<store, migVars, crudVars, laterVars>>

\* The caller's block returns nil or an error, or panics.
WT_BodyEnd(body) ==
    /\ wt.pc = "body"
    /\ wt' = [wt EXCEPT !.pc = "exit", !.body = body]
    /\ UNCHANGED <<store, migVars, crudVars, laterVars>>

\* The rest of WithTransaction; ok is whether a Commit it calls succeeds.
WT_Exit(ok) ==
    /\ wt.pc = "exit"
    /\ LET end == AfterBody(wt.kind, wt.body) IN
       CASE end = "Commit" ->
              /\ store' = IF ok THEN Overlay(store, wt.buf) ELSE store
              /\ wt' = [wt EXCEPT !.pc = "done", !.commits = wt.commits + 1,
                                  !.tx = IF ok THEN "committed" ELSE "rolledback",
                                  !.result = IF wt.body.kind = "nil"
                                             THEN (IF ok THEN Nil ELSE Error("commit"))
                                             ELSE wt.body]
         [] end = "Rollback" ->
              /\ store' = store
              /\ wt' = [wt EXCEPT !.pc = "done", !.rollbacks = wt.rollbacks + 1,
                                  !.tx = "rolledback", !.result = wt.body]
         [] OTHER ->
              /\ store' = store
              /\ wt' = [wt EXCEPT !.pc = "done", !.result = wt.body]
    /\ UNCHANGED <<migVars, crudVars, laterVars>>

TxInit ==
    /\ store = [k \in Keys |-> 0]
    /\ wt = IdleWt

TxNext ==
    \/ \E kind \in {"Connection", "Executor"}, ok \in BOOLEAN : WT_Begin(kind, ok)
    \/ \E k \in Keys, v \in Vals : WT_BodyExec(k, v)
    \/ \E e \in BodyErrors : WT_BodyEnd(Error(e))
    \/ WT_BodyEnd(Nil)
    \/ WT_BodyEnd(Panic("p"))
    \/ \E ok \in BOOLEAN : WT_Exit(ok)

\* C8: a WithTransaction whose block returned has begun one transaction and
\* ended it with one call: Rollback and no Commit when the block returned an
\* error, which is what the call returns, the rows as before the call; Commit
\* and no Rollback when the block returned nil, the block's writes stored when
\* the Commit succeeds.
C8_BlockEndsOnce ==
    /\ wt.begins <= 1
    /\ (wt.pc = "done" /\ wt.begins = 1 /\ wt.body.kind # "panic") =>
         /\ wt.commits + wt.rollbacks = 1
         /\ wt.tx # "open"
         /\ wt.body.kind = "error" =>
              /\ wt.rollbacks = 1 /\ wt.commits = 0
              /\ wt.tx = "rolledback"
              /\ wt.result = wt.body
              /\ store = wt.pre
         /\ wt.body.kind = "nil" =>
              /\ wt.commits = 1 /\ wt.rollbacks = 0
              /\ wt.result.kind # "panic"
              /\ wt.result = Nil => (wt.tx = "committed" /\ store = Overlay(wt.pre, wt.buf))
              /\ wt.result # Nil => (wt.tx = "rolledback" /\ store = wt.pre)

\* C8 witness: the block of an Executor.WithTransaction wrote a row and
\* returned an error, and the call has returned.
C8_Witness ==
    /\ wt.kind = "Executor" /\ wt.pc = "done"
    /\ wt.body.kind = "error" /\ wt.buf # <<>>

\* C9: after a WithTransaction whose block panicked, the transaction has been
\* rolled back and the panic leaves the call: this is the claim as stated.
C9_PanicRollsBack ==
    (wt.pc = "done" /\ wt.body.kind = "panic") =>
        /\ wt.tx = "rolledback"
        /\ wt.rollbacks = 1
        /\ wt.result = wt.body

\* ------------------------------------------------------------------------
\* CRUD: Connection.Create, Update, Delete on one record type
\* ------------------------------------------------------------------------

\* Record shapes, by the declaration of the ID field:
\*   AutoInt  ID int64       `db:"id,pk,auto"`
\*   Int      ID int64       `db:"id,pk"`
\*   Ptr      ID *int64      `db:"id,pk"`
\*   Iface    ID interface{} `db:"id,pk"`
\*   NoKey    ID int64       `db:"id"`          (no field is tagged pk)
\*   Excl     ID int64       `db:"id,pk"`, and a further exported field
\*            tagged `db:"-"` (a relationship field) after Data
Shapes == {"AutoInt", "Int", "Ptr", "Iface", "NoKey", "Excl"}
\* The key values a caller's record holds: the zero value and one other.
KeyVals == {0, 1}
Datas == {"d1", "d2"}

\* The value of the ID field: nil (a nil pointer, an empty interface) or n.
NilKey == [isNil |-> TRUE, n |-> 0]
Key(n) == [isNil |-> FALSE, n |-> n]

\* The values a field of the shape can hold; an integer field is never nil.
FieldVals(shape) ==
    {Key(n) : n \in KeyVals} \cup (IF shape \in {"Ptr", "Iface"} THEN {NilKey} ELSE {})

Models == {[shape |-> sh, ID |-> id, Data |-> d] :
               sh \in Shapes, id \in UNION {FieldVals(x) : x \in Shapes}, d \in Datas}
ValidModels == {m \in Models : m.ID \in FieldVals(m.shape)}

\* extractModelInfo: FieldInfo.IsKey and IsAuto of the ID field.
IsKey(shape) == shape # "NoKey"
IsAuto(shape) == shape = "AutoInt"

\* An interface{} value: nil, or a dynamic type with the field's value.
NilInterface == [nil |-> TRUE, val |-> NilKey]
Boxed(v) == [nil |-> FALSE, val |-> v]

\* reflect.Value.Interface() of the ID field: only an interface-typed field
\* that holds nothing yields the nil interface; a nil *int64 is boxed.
FieldInterface(shape, v) ==
    IF shape = "Iface" /\ v.isNil THEN NilInterface ELSE Boxed(v)

\* isZeroValue of the ID field: 0, a nil pointer, an empty interface.
IsZeroValue(v) == v.isNil \/ v.n = 0

\* idValue after the loop over info.Fields: assigned from the pk field, nil
\* when no field is tagged pk.
IdValue(m) == IF IsKey(m.shape) THEN FieldInterface(m.shape, m.ID) ELSE NilInterface

\* The rows WHERE id = arg matches; a nil argument is SQL NULL and matches none.
Matching(t, idValue) ==
    IF idValue.val.isNil THEN {} ELSE {k \in DOMAIN t : k = idValue.val.n}

\* extractModelInfo: the columns of info.Fields; a field tagged db:"-" has none.
Columns == {"id", "data"}

\* Connection.Create: the columns it calls qb.Set for.
InsertColumns(shape) ==
    IF IsKey(shape) /\ IsAuto(shape) THEN Columns \ {"id"} ELSE Columns

\* scanFields: one destination per settable field of the struct, the field
\* tagged db:"-" included.
ScanFields(shape) == IF shape = "Excl" THEN 3 ELSE 2

\* A statement handed to the driver: its verb, the columns it sets and the
\* argument of its WHERE pk = ?.
Statement(verb, cols, where) == [stmt |-> verb, cols |-> cols, where |-> where]

\* The error Update and Delete return once the statement ran without one.
AffectedResultIgnoresZero(affected) == "nil"
AffectedResult(affected) == IF affected = 0 THEN "ErrNotFound" ELSE "nil"

NoCall == [op |-> "none", model |-> [shape |-> "NoKey", ID |-> Key(0), Data |-> "d1"],
           err |-> "nil", stmts |-> <<>>]

Returns(op, m, err, stmts) ==
    [op |-> op, model |-> m, err |-> err, stmts |-> stmts]

\* Connection.Create: INSERT of every field but an auto pk; the generated id is
\* written to the record when result.LastInsertId() gives one.
Create(m, ok, hasLastInsertId) ==
    /\ (IsKey(m.shape) /\ IsAuto(m.shape)) => lastId < MaxKey
    /\ UNCHANGED <<migVars, txVars, laterVars>>
    /\ LET auto == IsKey(m.shape) /\ IsAuto(m.shape)
           key == IF auto THEN lastId + 1 ELSE m.ID.n
           stored == ok /\ (auto \/ (~m.ID.isNil /\ key \notin DOMAIN table))
           stmt == Statement("INSERT", InsertColumns(m.shape), NilInterface)
       IN  /\ table' = IF stored
                       THEN [k \in (DOMAIN table) \cup {key} |->
                                IF k = key THEN m.Data ELSE table[k]]
                       ELSE table
           /\ lastId' = IF stored /\ auto THEN key ELSE lastId
           /\ crud' = Returns("Create",
                              IF stored /\ auto /\ hasLastInsertId
                              THEN [m EXCEPT !.ID = Key(key)] ELSE m,
                              IF stored THEN "nil" ELSE "exec",
                              <<stmt>>)

\* Connection.Update: UPDATE SET every non-key field WHERE pk = idValue. The
\* statement may fail (ok), and so may result.RowsAffected() after it (counted).
Update(m, ok, counted) ==
    /\ UNCHANGED <<migVars, txVars, laterVars>>
    /\ LET idValue == IdValue(m)
           stmt == Statement("UPDATE", Columns \ {"id"}, idValue)
           rows == Matching(table, idValue)
       IN  IF idValue = NilInterface
           THEN /\ crud' = Returns("Update", m, "ErrNoID", <<>>)
                /\ UNCHANGED <<table, lastId>>
           ELSE /\ table' = IF ok
                            THEN [k \in DOMAIN table |-> IF k \in rows THEN m.Data ELSE table[k]]
                            ELSE table
                /\ crud' = Returns("Update", m,
                                   IF ~ok THEN "exec"
                                   ELSE IF ~counted THEN "rowsAffected"
                                   ELSE AffectedResult(Cardinality(rows)),
                                   <<stmt>>)
                /\ UNCHANGED lastId

\* Connection.Delete: DELETE WHERE pk = idValue.
Delete(m, ok, counted) ==
    /\ UNCHANGED <<migVars, txVars, laterVars>>
    /\ LET idValue == IdValue(m)
           stmt == Statement("DELETE", {}, idValue)
           rows == Matching(table, idValue)
       IN  IF idValue = NilInterface
           THEN /\ crud' = Returns("Delete", m, "ErrNoID", <<>>)
                /\ UNCHANGED <<table, lastId>>
           ELSE /\ table' = IF ok
                            THEN [k \in (DOMAIN table) \ rows |-> table[k]]
                            ELSE table
                /\ crud' = Returns("Delete", m,
                                   IF ~ok THEN "exec"
                                   ELSE IF ~counted THEN "rowsAffected"
                                   ELSE AffectedResult(Cardinality(rows)),
                                   <<stmt>>)
                /\ UNCHANGED lastId

\* Connection.Find: SELECT * WHERE pk = id, one row scanned into the record's
\* settable fields in order. Row.Scan reports a failed query first, then no
\* row, then a destination count that differs from the column count.
Find(m, id, ok) ==
    /\ UNCHANGED <<migVars, txVars, laterVars>>
    /\ UNCHANGED <<table, lastId>>
    /\ LET stmt == Statement("SELECT", {}, id)
           rows == Matching(table, id)
       IN  IF ~ok THEN crud' = Returns("Find", m, "query", <<stmt>>)
           ELSE IF rows = {} THEN crud' = Returns("Find", m, "ErrNotFound", <<stmt>>)
           ELSE IF ScanFields(m.shape) # Cardinality(Columns)
                THEN crud' = Returns("Find", m, "scan", <<stmt>>)
           ELSE \E k \in rows :
                    crud' = Returns("Find", [m EXCEPT !.ID = Key(k), !.Data = table[k]],
                                    "nil", <<stmt>>)

\* The record Find scans into: a new record of the shape, every field zero.
NewModels == {m \in ValidModels : IsZeroValue(m.ID) /\ m.Data = "d1"
                                     /\ (m.shape \in {"Ptr", "Iface"} => m.ID.isNil)}

\* The values Find is called with as id.
IdArgs == {NilInterface} \cup {Boxed(v) : v \in {Key(n) : n \in KeyVals} \cup {NilKey}}

CrudInit ==
    /\ table = <<>>
    /\ lastId = 0
    /\ crud = NoCall

\* Whether the driver's result has a LastInsertId is read for an auto key only,
\* its RowsAffected after a statement that ran.
CrudNext ==
    \/ \E m \in ValidModels, ok \in BOOLEAN :
           \E has \in (IF IsAuto(m.shape) THEN BOOLEAN ELSE {FALSE}) : Create(m, ok, has)
    \/ \E m \in ValidModels, ok \in BOOLEAN :
           \E counted \in (IF ok THEN BOOLEAN ELSE {TRUE}) : Update(m, ok, counted)
    \/ \E m \in ValidModels, ok \in BOOLEAN :
           \E counted \in (IF ok THEN BOOLEAN ELSE {TRUE}) : Delete(m, ok, counted)
    \/ \E m \in NewModels, id \in IdArgs, ok \in BOOLEAN : Find(m, id, ok)

\* C10: an Update or Delete of a record whose primary key field holds the zero
\* value returns ErrNoID and has executed no statement: this is the claim as
\* stated.
C10_MissingKey ==
    (crud.op \in {"Update", "Delete"} /\ IsKey(crud.model.shape)
        /\ IsZeroValue(crud.model.ID)) =>
        /\ crud.err = "ErrNoID"
        /\ crud.stmts = <<>>

\* C11: an Update or Delete whose statement ran and whose affected-row count
\* was read, with a primary key value that matches no stored row, returns
\* ErrNotFound and leaves every stored row as it was.
C11_NoRowIsNotFound ==
    [][(/\ crud'.op \in {"Update", "Delete"}
        /\ crud'.stmts # <<>>
        /\ crud'.err \notin {"exec", "rowsAffected"}
        /\ ~ \E k \in DOMAIN table : crud'.stmts[1].where = Boxed(Key(k)))
       => (crud'.err = "ErrNotFound" /\ table' = table)]_crudVars

\* C11 witness: rows are stored, and an Update of a key that none of them has
\* returned ErrNotFound.
C11_Witness ==
    /\ crud.op = "Update"
    /\ crud.err = "ErrNotFound"
    /\ DOMAIN table # {}
    /\ ~crud.model.ID.isNil
    /\ crud.model.ID.n \notin DOMAIN table

\* C12: a Find that directly follows a successful Create of a record with a
\* tagged primary key, into a record of the same shape and with the created
\* record's key value as id, returns nil and a record equal to the created one
\* on every non-auto field (a failed query aside): this is the claim as stated.
C12_CreateThenFind ==
    [][(/\ crud.op = "Create"
        /\ crud.err = "nil"
        /\ IsKey(crud.model.shape)
        /\ crud'.op = "Find"
        /\ crud'.model.shape = crud.model.shape
        /\ crud'.stmts[1].where = FieldInterface(crud.model.shape, crud.model.ID)
        /\ crud'.err # "query")
       => (/\ crud'.err = "nil"
           /\ crud'.model.Data = crud.model.Data
           /\ ~IsAuto(crud.model.shape) => crud'.model.ID = crud.model.ID)]_crudVars

\* C13: a Create inserts every column but an auto-generated primary key, and
\* after a Create that returned nil for a record with an auto-generated key the
\* record's key field holds the identifier the backend generated: this is the
\* claim as stated.
C13_CreateSetsGeneratedKey ==
    (crud.op = "Create") =>
        /\ crud.stmts[1].cols = Columns \ (IF IsKey(crud.model.shape) /\ IsAuto(crud.model.shape)
                                            THEN {"id"} ELSE {})
        /\ (crud.err = "nil" /\ IsKey(crud.model.shape) /\ IsAuto(crud.model.shape))
               => crud.model.ID = Key(lastId)

\* ------------------------------------------------------------------------
\* Query builders: sage.QueryBuilder and the dialect-aware query.Builder
\* ------------------------------------------------------------------------
\* SQL text is a sequence of tokens: plain text, a quoted identifier, the
\* generic placeholder ? and the numbered placeholder $n. Clauses that carry
\* no argument (selected columns, joins, GROUP BY, ORDER BY, LIMIT, OFFSET,
\* RETURNING) are not part of the builder state modelled here.

Text(s) == [t |-> "text", s |-> s, n |-> 0]
Generic == [t |-> "?", s |-> "", n |-> 0]
Dollar(n) == [t |-> "$", s |-> "", n |-> n]

Dialects == {"postgres", "mysql", "sqlite"}

\* Dialect.Placeholder(position): $position for postgres, ? otherwise.
Placeholder(dialect, position) ==
    IF dialect = "postgres" THEN Dollar(position) ELSE Generic

\* Dialect.Quote(identifier): backticks for mysql, double quotes otherwise.
Quote(dialect, identifier) ==
    [t |-> IF dialect = "mysql" THEN "backtick" ELSE "doublequote", s |-> identifier, n |-> 0]

\* The two builder types; sage.QueryBuilder has no dialect.
Kinds == {"QueryBuilder", "Builder"}

\* The conditions a caller passes to Where and Having, with their arguments:
\* "c = ?" and "d BETWEEN ? AND ?".
CondEq == <<Text("c ="), Generic>>
CondBetween == <<Text("d BETWEEN"), Generic, Text("AND"), Generic>>
Conds == {CondEq, CondBetween}
CondArgs(cond) == IF cond = CondEq THEN <<"w1">> ELSE <<"w2", "w3">>

\* The columns and values a caller passes to Set.
SetColumns == {"a", "b"}
SetValues == {"v1", "v2"}

\* NewQueryBuilder(table) / NewBuilder(dialect, table)
NewBuilder(kind, dialect) ==
    [kind |-> kind, dialect |-> dialect, operation |-> "",
     values |-> <<>>, where |-> <<>>, whereArgs |-> <<>>,
     having |-> <<>>, havingArgs |-> <<>>]

\* strings.Split(condition, "?") joined again with
\* dialect.Placeholder(len(args so far) + i) for the i-th ? of the condition.
QuestionMarks(cond, j) == Cardinality({i \in 1..j : cond[i] = Generic})
Rewrite(dialect, cond, argsSoFar) ==
    [j \in 1..Len(cond) |->
        IF cond[j] = Generic
        THEN Placeholder(dialect, argsSoFar + QuestionMarks(cond, j))
        ELSE cond[j]]

\* Where(condition, args...): query.Builder rewrites the ? of the condition,
\* sage.QueryBuilder appends it as it is.
Where(b, cond, args) ==
    [b EXCEPT !.where = Append(@, IF b.kind = "Builder"
                                  THEN Rewrite(b.dialect, cond, Len(b.whereArgs))
                                  ELSE cond),
              !.whereArgs = @ \o args]

\* Having(condition, args...): as Where, numbered from len(havingArgs).
Having(b, cond, args) ==
    [b EXCEPT !.having = Append(@, IF b.kind = "Builder"
                                   THEN Rewrite(b.dialect, cond, Len(b.havingArgs))
                                   ELSE cond),
              !.havingArgs = @ \o args]

\* Set(column, value): values[column] = value
Set(b, column, value) ==
    [b EXCEPT !.values = [c \in (DOMAIN b.values) \cup {column} |->
                             IF c = column THEN value ELSE b.values[c]]]

\* strings.Join(conditions, " AND ")
RECURSIVE JoinAnd(_)
JoinAnd(conds) ==
    IF conds = <<>> THEN <<>>
    ELSE IF Len(conds) = 1 THEN conds[1]
    ELSE conds[1] \o <<Text("AND")>> \o JoinAnd(Tail(conds))

Clause(keyword, conds) ==
    IF Len(conds) > 0 THEN <<Text(keyword)>> \o JoinAnd(conds) ELSE <<>>

\* The orders in which "for column, value := range values" can visit a map:
\* Go leaves the iteration order of a map unspecified.
RangeOrders(values) ==
    LET n == Cardinality(DOMAIN values)
    IN  {o \in [1..n -> DOMAIN values] : \A i, j \in 1..n : o[i] = o[j] => i = j}

\* The table, the i-th visited column and its placeholder as each builder
\* writes them.
TableOf(b) == IF b.kind = "Builder" THEN Quote(b.dialect, "t") ELSE Text("t")
ColumnOf(b, column) == IF b.kind = "Builder" THEN Quote(b.dialect, column) ELSE Text(column)
ValuePlaceholder(b, i) == IF b.kind = "Builder" THEN Placeholder(b.dialect, i) ELSE Generic

\* strings.Join(parts, ", ")
RECURSIVE JoinComma(_)
JoinComma(parts) ==
    IF parts = <<>> THEN <<>>
    ELSE IF Len(parts) = 1 THEN parts[1]
    ELSE parts[1] \o <<Text(",")>> \o JoinComma(Tail(parts))

\* Build(): the SQL text and the argument list, the map of Set values visited
\* in the given order.
Build(b, order) ==
    LET n == Len(order)
        vals == [i \in 1..n |-> b.values[order[i]]]
    IN  CASE b.operation = "SELECT" ->
                 [sql |-> <<Text("SELECT * FROM"), TableOf(b)>>
                              \o Clause("WHERE", b.where) \o Clause("HAVING", b.having),
                  args |-> b.whereArgs \o b.havingArgs]
          [] b.operation = "INSERT" ->
                 [sql |-> <<Text("INSERT INTO"), TableOf(b), Text("(")>>
                              \o JoinComma([i \in 1..n |-> <<ColumnOf(b, order[i])>>])
                              \o <<Text(") VALUES (")>>
                              \o JoinComma([i \in 1..n |-> <<ValuePlaceholder(b, i)>>])
                              \o <<Text(")")>>,
                  args |-> vals]
          [] b.operation = "UPDATE" ->
                 [sql |-> <<Text("UPDATE"), TableOf(b), Text("SET")>>
                              \o JoinComma([i \in 1..n |->
                                     <<ColumnOf(b, order[i]), Text("="), ValuePlaceholder(b, i)>>])
                              \o Clause("WHERE", b.where),
                  args |-> vals \o b.whereArgs]
          [] b.operation = "DELETE" ->
                 [sql |-> <<Text("DELETE FROM"), TableOf(b)>> \o Clause("WHERE", b.where),
                  args |-> b.whereArgs]
          [] OTHER -> [sql |-> <<>>, args |-> <<>>]

\* A caller's steps on one builder. built holds the results of the Build calls
\* made since the builder last changed.
QB_New(kind, dialect) ==
    /\ qb' = NewBuilder(kind, dialect)
    /\ built' = <<>>
    /\ UNCHANGED outsideBuild

QB_Operation(op) ==
    /\ qb.operation # op
    /\ qb' = [qb EXCEPT !.operation = op]
    /\ built' = <<>>
    /\ UNCHANGED outsideBuild

QB_Set(column, value) ==
    /\ qb' = Set(qb, column, value)
    /\ qb' # qb
    /\ built' = <<>>
    /\ UNCHANGED outsideBuild

QB_Where(cond) ==
    /\ Len(qb.where) < MaxWhere
    /\ qb' = Where(qb, cond, CondArgs(cond))
    /\ built' = <<>>
    /\ UNCHANGED outsideBuild

QB_Having(cond) ==
    /\ Len(qb.having) < MaxHaving
    /\ qb' = Having(qb, cond, CondArgs(cond))
    /\ built' = <<>>
    /\ UNCHANGED outsideBuild

QB_Build ==
    /\ Len(built) < 2
    /\ \E order \in RangeOrders(qb.values) : built' = Append(built, Build(qb, order))
    /\ UNCHANGED qb
    /\ UNCHANGED outsideBuild

BuildInit ==
    /\ qb = NewBuilder("QueryBuilder", "none")
    /\ built = <<>>

BuildNext ==
    \/ \E dialect \in Dialects : QB_New("Builder", dialect)
    \/ QB_New("QueryBuilder", "none")
    \/ \E op \in {"SELECT", "INSERT", "UPDATE", "DELETE"} : QB_Operation(op)
    \/ \E column \in SetColumns, value \in SetValues : QB_Set(column, value)
    \/ \E cond \in Conds : QB_Where(cond)
    \/ \E cond \in Conds : QB_Having(cond)
    \/ QB_Build

\* C14: two Build calls on the same builder state return the same SQL text and
\* the same argument list: this is the claim as stated.
C14_BuildDeterministic ==
    Len(built) = 2 => built[1] = built[2]

IsPlaceholder(tok) == tok.t \in {"?", "$"}

\* C15: in a statement built by query.Builder under the postgres dialect the
\* k-th placeholder of the SQL text is $k, and there are as many placeholders
\* as arguments, so that it refers to the k-th argument: this is the claim as
\* stated.
C15_PlaceholdersInOrder ==
    (qb.kind = "Builder" /\ qb.dialect = "postgres") =>
        \A r \in 1..Len(built) :
            LET ph == SelectSeq(built[r].sql, IsPlaceholder)
            IN  /\ Len(ph) = Len(built[r].args)
                /\ \A k \in 1..Len(ph) : ph[k] = Dollar(k)

\* ------------------------------------------------------------------------
\* Relationships: Connection.Preload, Associate, Dissociate
\* ------------------------------------------------------------------------
\* The source record type is a User with the key column "id", a HasMany
\* field Posts (table posts, foreign key user_id) and a ManyToMany field Tags
\* (table tags through the join table user_tags(user_id, tag_id)).

UserIds == {1, 2}
TagIds == {1}
PostIds == {1}

\* A name is the sequence of its words: the column user_id is <<"user", "id">>,
\* the field UserID <<"User", "ID">>.
\* strings.Title of one word: the first letter in upper case, the rest kept.
Title(word) ==
    CASE word = "id" -> "Id"
      [] word = "user" -> "User"
      [] OTHER -> word

\* toFieldName: split on "_", Title each part, join.
toFieldName(columnName) == [i \in 1..Len(columnName) |-> Title(columnName[i])]

\* The declared name of the key field of the source and target types,
\* `db:"id,pk"` in both cases: Id or ID.
KeyFields == {<<"Id">>, <<"ID">>}

\* reflect.Value.FieldByName(toFieldName(info.PrimaryKey)).IsValid()
PkFieldIsValid(keyField) == toFieldName(<<"id">>) = keyField

\* A slice-typed field: nil, or a slice of the related rows' ids.
NilSlice == [nil |-> TRUE, items |-> <<>>]
Slice(items) == [nil |-> FALSE, items |-> items]

\* A User record in memory; a field not preloaded yet is nil, or holds what an
\* earlier load left there.
User(id, stale) ==
    [ID |-> id,
     Posts |-> IF stale THEN Slice(<<0>>) ELSE NilSlice,
     Tags |-> IF stale THEN Slice(<<0>>) ELSE NilSlice]

\* Relationship values a caller declares.
Rel(type, fk, ref, jt, jfk, jref) ==
    [Type |-> type, ForeignKey |-> fk, ReferenceKey |-> ref,
     JoinTable |-> jt, JoinForeignKey |-> jfk, JoinRefKey |-> jref]
HasManyPosts == Rel("HasMany", "user_id", "id", "", "", "")
HasManyNoForeignKey == Rel("HasMany", "", "id", "", "", "")
ManyToManyTags == Rel("ManyToMany", "", "id", "user_tags", "user_id", "tag_id")
ManyToManyNoReferenceKey == Rel("ManyToMany", "", "", "user_tags", "user_id", "tag_id")
ManyToManyNoJoinTable == Rel("ManyToMany", "", "id", "", "user_id", "tag_id")

\* validateRelationship: nil or the first missing key.
validateRelationship(rel) ==
    CASE rel.Type \in {"HasOne", "BelongsTo", "HasMany"} ->
             IF rel.ForeignKey = "" THEN "validation"
             ELSE IF rel.ReferenceKey = "" THEN "validation"
             ELSE "nil"
      [] rel.Type = "ManyToMany" ->
             IF rel.JoinTable = "" THEN "validation"
             ELSE IF rel.JoinForeignKey = "" THEN "validation"
             ELSE IF rel.JoinRefKey = "" THEN "validation"
             ELSE "nil"
      [] OTHER -> "validation"

\* The relationship maps Preload is called with: per field, no entry or one
\* of the declarations above.
RelMaps ==
    {m \in UNION {[fs -> {HasManyPosts, HasManyNoForeignKey, ManyToManyTags,
                          ManyToManyNoReferenceKey, ManyToManyNoJoinTable}] :
                      fs \in SUBSET {"Posts", "Tags"}} :
        /\ "Posts" \in DOMAIN m => m["Posts"].Type = "HasMany"
        /\ "Tags" \in DOMAIN m => m["Tags"].Type = "ManyToMany"}

\* Rows of a result set, in ascending id order.
RECURSIVE Ascending(_)
Ascending(S) ==
    IF S = {} THEN <<>>
    ELSE LET x == CHOOSE x \in S : \A y \in S : x <= y
         IN  <<x>> \o Ascending(S \ {x})

Copies(x, n) == [k \in 1..n |-> x]

RECURSIVE Concat(_, _)
Concat(f, keys) ==
    IF keys = <<>> THEN <<>> ELSE f[Head(keys)] \o Concat(f, Tail(keys))

\* SELECT * FROM posts WHERE user_id = ?
SelectPosts(p, id) == Ascending({k \in DOMAIN p : p[k] = id})

\* SELECT r.* FROM tags r INNER JOIN user_tags j ON r.id = j.tag_id
\* WHERE j.user_id = ?: one row per join row of the user.
SelectTags(j, id) ==
    Concat([t \in TagIds |-> Copies(t, j[<<id, t>>])], Ascending(TagIds))

\* Whether the backend can parse the statement: an empty table or column name
\* is a syntax error.
WellFormedQuery(rel) ==
    IF rel.Type = "ManyToMany"
    THEN rel.JoinTable # "" /\ rel.ReferenceKey # "" /\ rel.JoinRefKey # ""
             /\ rel.JoinForeignKey # ""
    ELSE rel.ForeignKey # ""

\* reflect.MakeSlice(sliceType, 0, 0) and the appended rows: never nil.
NewSlice(items) == Slice(items)

\* preloadHasMany / preloadManyToMany on one record: the error, whether a
\* query was sent, and the record afterwards.
preloadMany(rec, field, rel, keyField, ok) ==
    IF ~PkFieldIsValid(keyField)
    THEN [err |-> "pk field not found", queried |-> FALSE, rec |-> rec]
    ELSE IF ~ok \/ ~WellFormedQuery(rel)
    THEN [err |-> "query", queried |-> TRUE, rec |-> rec]
    ELSE [err |-> "nil", queried |-> TRUE,
          rec |-> [rec EXCEPT ![field] =
                      NewSlice(IF rel.Type = "HasMany"
                               THEN SelectPosts(posts, rec.ID)
                               ELSE SelectTags(join, rec.ID))]]

\* One iteration of `for field, rel := range relationships` in Preload:
\* validate, then preload by type.
preloadField(rec, field, rel, keyField, ok) ==
    IF validateRelationship(rel) # "nil"
    THEN [err |-> "validation", queried |-> FALSE, rec |-> rec]
    ELSE preloadMany(rec, field, rel, keyField, ok)

\* The last call of this component, or the Preload in progress.
\*   kind      "ptr" a *User, "ptrs" a []*User, "vals" a []User
\*   recs      the caller's records; orig, as they were at the call
\*   i, work   the element being processed and the record Preload works on:
\*             the caller's own for a pointer, a copy for a value element
\*   visited   the fields the range over the map has visited for element i
NoRelCall ==
    [op |-> "none", pc |-> "done", kind |-> "ptr", keyField |-> <<"Id">>,
     recs |-> <<>>, orig |-> <<>>, i |-> 1, work |-> User(1, FALSE),
     visited |-> {}, rels |-> <<>>, queries |-> 0, failed |-> FALSE,
     err |-> "nil", stmts |-> <<>>, src |-> 0, tgt |-> 0, rel |-> HasManyPosts]

\* After element i is finished: a pointer element is the record worked on, the
\* copy of a value element is dropped.
WriteBack(c) ==
    IF c.kind = "vals" THEN c.recs ELSE [c.recs EXCEPT ![c.i] = c.work]

\* Move to the next element, or return.
NextElement(c) ==
    LET recs == WriteBack(c)
    IN  IF c.i < Len(c.recs)
        THEN [c EXCEPT !.recs = recs, !.i = c.i + 1, !.work = recs[c.i + 1],
                       !.visited = {}]
        ELSE [c EXCEPT !.recs = recs, !.pc = "done"]

\* Preload(ctx, source, relationships): the call, up to the first iteration.
PL_Call(kind, ids, keyField, stale, rels) ==
    /\ relCall.pc = "done"
    /\ LET recs == [k \in 1..Len(ids) |-> User(ids[k], stale)]
           c == [NoRelCall EXCEPT !.op = "Preload", !.pc = "run", !.kind = kind,
                                  !.keyField = keyField, !.recs = recs, !.orig = recs,
                                  !.work = recs[1], !.rels = rels]
       IN  relCall' = IF DOMAIN rels = {} THEN [c EXCEPT !.pc = "done"] ELSE c
    /\ UNCHANGED <<posts, join>>
    /\ UNCHANGED outsideRel

\* One iteration of the range over the map, for the current element; the map
\* is visited in any order.
PL_Visit(field, ok) ==
    /\ relCall.pc = "run"
    /\ field \in DOMAIN relCall.rels \ relCall.visited
    /\ LET r == preloadField(relCall.work, field, relCall.rels[field], relCall.keyField, ok)
           c == [relCall EXCEPT !.work = r.rec,
                            !.visited = @ \cup {field},
                            !.queries = @ + (IF r.queried THEN 1 ELSE 0),
                            !.failed = @ \/ ~ok]
       IN  relCall' = IF r.err # "nil"
                  THEN [c EXCEPT !.err = r.err, !.pc = "done", !.recs = WriteBack(c)]
                  ELSE IF c.visited = DOMAIN c.rels THEN NextElement(c)
                  ELSE c
    /\ UNCHANGED <<posts, join>>
    /\ UNCHANGED outsideRel

\* A statement on the join table.
JoinStmt(verb, r, src, tgt) ==
    [verb |-> verb, table |-> r.JoinTable, args |-> <<src, tgt>>]

AssocCall(op, src, tgt, keyField, r, err, stmts, ok) ==
    [NoRelCall EXCEPT !.op = op, !.src = src, !.tgt = tgt, !.keyField = keyField,
                      !.rel = r, !.err = err, !.stmts = stmts, !.failed = ~ok]

\* INSERT INTO user_tags (user_id, tag_id) VALUES (?, ?)
InsertJoinRow(j, src, tgt) == [j EXCEPT ![<<src, tgt>>] = @ + 1]

\* DELETE FROM user_tags WHERE user_id = ? AND tag_id = ?
DeleteJoinRows(j, src, tgt) == [j EXCEPT ![<<src, tgt>>] = 0]

\* Associate(ctx, source, field, target, rel)
Associate(src, tgt, keyField, r, ok) ==
    /\ relCall.pc = "done"
    /\ join[<<src, tgt>>] < MaxJoin
    /\ UNCHANGED posts
    /\ UNCHANGED outsideRel
    /\ IF r.Type # "ManyToMany"
       THEN /\ relCall' = AssocCall("Associate", src, tgt, keyField, r, "usage", <<>>, ok)
            /\ UNCHANGED join
       ELSE IF ~PkFieldIsValid(keyField)
       THEN /\ relCall' = AssocCall("Associate", src, tgt, keyField, r,
                                "pk field not found", <<>>, ok)
            /\ UNCHANGED join
       ELSE IF ~ok \/ ~WellFormedQuery(r)
       THEN /\ relCall' = AssocCall("Associate", src, tgt, keyField, r, "exec",
                                <<JoinStmt("INSERT", r, src, tgt)>>, ok)
            /\ UNCHANGED join
       ELSE /\ relCall' = AssocCall("Associate", src, tgt, keyField, r, "nil",
                                <<JoinStmt("INSERT", r, src, tgt)>>, ok)
            /\ join' = InsertJoinRow(join, src, tgt)

\* Dissociate(ctx, source, field, target, rel)
Dissociate(src, tgt, keyField, r, ok) ==
    /\ relCall.pc = "done"
    /\ UNCHANGED posts
    /\ UNCHANGED outsideRel
    /\ IF r.Type # "ManyToMany"
       THEN /\ relCall' = AssocCall("Dissociate", src, tgt, keyField, r, "usage", <<>>, ok)
            /\ UNCHANGED join
       ELSE IF ~PkFieldIsValid(keyField)
       THEN /\ relCall' = AssocCall("Dissociate", src, tgt, keyField, r,
                                "pk field not found", <<>>, ok)
            /\ UNCHANGED join
       ELSE IF ~ok \/ ~WellFormedQuery(r)
       THEN /\ relCall' = AssocCall("Dissociate", src, tgt, keyField, r, "exec",
                                <<JoinStmt("DELETE", r, src, tgt)>>, ok)
            /\ UNCHANGED join
       ELSE /\ relCall' = AssocCall("Dissociate", src, tgt, keyField, r, "nil",
                                <<JoinStmt("DELETE", r, src, tgt)>>, ok)
            /\ join' = DeleteJoinRows(join, src, tgt)

\* Connection.Create of a Post that belongs to the user: a row of posts.
InsertPost(id, user) ==
    /\ relCall.pc = "done"
    /\ id \notin DOMAIN posts
    /\ posts' = [k \in (DOMAIN posts) \cup {id} |-> IF k = id THEN user ELSE posts[k]]
    /\ relCall' = NoRelCall
    /\ UNCHANGED join
    /\ UNCHANGED outsideRel

RelInit ==
    /\ posts = <<>>
    /\ join = [p \in UserIds \X TagIds |-> 0]
    /\ relCall = NoRelCall

\* The sources Preload is called with.
Sources ==
    {[kind |-> "ptr", ids |-> <<u>>] : u \in UserIds}
        \cup {[kind |-> k, ids |-> <<1, 2>>] : k \in {"ptrs", "vals"}}

RelNext ==
    \/ \E s \in Sources, keyField \in KeyFields, stale \in BOOLEAN, rels \in RelMaps :
           PL_Call(s.kind, s.ids, keyField, stale, rels)
    \/ \E field \in {"Posts", "Tags"}, ok \in BOOLEAN : PL_Visit(field, ok)
    \/ \E src \in UserIds, tgt \in TagIds, keyField \in KeyFields,
          r \in {HasManyPosts, ManyToManyTags}, ok \in BOOLEAN :
           Associate(src, tgt, keyField, r, ok)
    \/ \E src \in UserIds, tgt \in TagIds, keyField \in KeyFields,
          r \in {HasManyPosts, ManyToManyTags}, ok \in BOOLEAN :
           Dissociate(src, tgt, keyField, r, ok)
    \/ \E id \in PostIds, user \in UserIds : InsertPost(id, user)

\* C16: a Preload of one record for a single well-formed HasMany (likewise
\* ManyToMany) relationship, with no stored row related to the record and no
\* failure of the driver, returns nil and leaves the field an empty slice that
\* is not nil, whatever it held before: this is the claim as stated.
C16_EmptyCollectionPresent ==
    \A field \in {"Posts", "Tags"} :
        (/\ relCall.op = "Preload"
         /\ relCall.pc = "done"
         /\ relCall.kind = "ptr"
         /\ DOMAIN relCall.rels = {field}
         /\ validateRelationship(relCall.rels[field]) = "nil"
         /\ ~relCall.failed
         /\ field = "Posts" => SelectPosts(posts, relCall.orig[1].ID) = <<>>
         /\ field = "Tags" => SelectTags(join, relCall.orig[1].ID) = <<>>)
        => (/\ relCall.err = "nil"
            /\ relCall.recs[1][field] = Slice(<<>>))

\* C17: a Preload whose map holds a relationship that validateRelationship
\* rejects returns the validation error and has sent no query: this is the
\* claim as stated, for a record type whose key field Preload finds.
C17_ValidationBeforeQueries ==
    (/\ relCall.op = "Preload"
     /\ relCall.pc = "done"
     /\ PkFieldIsValid(relCall.keyField)
     /\ \E f \in DOMAIN relCall.rels : validateRelationship(relCall.rels[f]) # "nil")
    => (relCall.err = "validation" /\ relCall.queries = 0)

\* What a Preload of the one record alone leaves in it.
PreloadAlone(rec, rels, keyField) ==
    LET a == IF "Posts" \in DOMAIN rels
             THEN preloadField(rec, "Posts", rels["Posts"], keyField, TRUE).rec
             ELSE rec
    IN  IF "Tags" \in DOMAIN rels
        THEN preloadField(a, "Tags", rels["Tags"], keyField, TRUE).rec
        ELSE a

\* C18: after a Preload of a sequence returned nil, every element of the
\* caller's sequence is what a Preload of that element alone makes of it, for
\* a sequence of pointers and for a sequence of values: this is the claim as
\* stated.
C18_SequenceAsSingle ==
    (/\ relCall.op = "Preload"
     /\ relCall.pc = "done"
     /\ relCall.kind \in {"ptrs", "vals"}
     /\ relCall.err = "nil")
    => \A k \in 1..Len(relCall.recs) :
           relCall.recs[k] = PreloadAlone(relCall.orig[k], relCall.rels, relCall.keyField)

\* C19: with a ManyToMany relationship and no failure of the driver, Associate
\* adds exactly one join row of the pair and Dissociate removes the rows of the
\* pair and no other; with another relationship type both return the usage
\* error, send no statement and change no row: this is the claim as stated.
C19_AssociateDissociate ==
    [][(relCall'.op \in {"Associate", "Dissociate"}) =>
        LET c == relCall'
            pair == <<c.src, c.tgt>>
        IN  IF c.rel.Type # "ManyToMany"
            THEN c.err = "usage" /\ c.stmts = <<>> /\ join' = join
            ELSE ~c.failed =>
                    /\ c.err = "nil"
                    /\ join' = [join EXCEPT ![pair] =
                                   IF c.op = "Associate" THEN @ + 1 ELSE 0]]_relVars


\* ------------------------------------------------------------------------
\* Nested persistence: Connection.CreateNested
\* ------------------------------------------------------------------------
\* The root is a User (table users, auto key id) with a HasOne field Profile
\* (table profiles) and a HasMany field Posts (table posts); both children
\* have an auto key id and the foreign key column user_id. The root also
\* BelongsTo a Company (table companies, users.company_id) and has a
\* ManyToMany field Tags (table tags, join table user_tags); the map may hold
\* an entry Other whose Type is none of the four kinds.

\* The declared name of the children's foreign key field: UserId or UserID.
FkFields == {<<"User", "Id">>, <<"User", "ID">>}

\* relValue.FieldByName(toFieldName(rel.ForeignKey)).IsValid()
FkFieldIsValid(fkField) == toFieldName(<<"user", "id">>) = fkField

\* A child record in memory, and the root with its relationship fields: a nil
\* pointer and a nil slice are the empty sequence.
Child == [ID |-> 0, UserId |-> 0]
Root(profile, nposts) ==
    [ID |-> 0, CompanyId |-> 0,
     Profile |-> IF profile THEN <<Child>> ELSE <<>>,
     Posts |-> [k \in 1..nposts |-> Child],
     Company |-> <<>>, Tags |-> <<>>, Other |-> <<>>]

NestedFields == {"Profile", "Posts", "Company", "Tags", "Other"}
NestedMaps == {m \in SUBSET NestedFields : Cardinality(m) <= MaxRels}

NestedTable(field) ==
    CASE field = "Profile" -> "profiles"
      [] field = "Company" -> "companies"
      [] field = "Tags" -> "tags"
      [] OTHER -> "posts"

\* An INSERT sent by Connection.Create: the table, the value of user_id (0
\* for the root) and whether it succeeded.
NestedInsert(tbl, fk, ok) == [verb |-> "INSERT", table |-> tbl, fk |-> fk, ok |-> ok]

NoNestedCall ==
    [op |-> "none", pc |-> "done", keyField |-> <<"Id">>, fkField |-> <<"User", "Id">>,
     has |-> TRUE, autoSave |-> TRUE, root |-> Root(FALSE, 0), rels |-> {},
     visited |-> {}, rootId |-> 0, log |-> <<>>, err |-> "nil",
     autoDelete |-> FALSE, nullify |-> FALSE, pre |-> 0, calls |-> 0,
     refs |-> {}, assoc |-> {}]

\* fkField.Set(pkField) when the foreign key field is found, nothing otherwise.
SetForeignKey(child, fkField, pk) ==
    IF FkFieldIsValid(fkField) THEN [child EXCEPT !.UserId = pk] ELSE child

\* Connection.Create of a record with an auto key: the key field afterwards.
CreatedKey(has, old, generated) == IF has THEN generated ELSE old

\* CreateNested(ctx, model, relationships, opts): Create of the root; with
\* AutoSave off, or no relationship, the call returns after it.
CN_Call(keyField, fkField, has, autoSave, profile, nposts, company, tags, rels, ok) ==
    /\ nest.pc = "done"
    /\ rootSeq < MaxRoots
    /\ nest.calls < MaxCalls
    /\ LET id == rootSeq + 1
           root == [Root(profile, nposts) EXCEPT !.Company = company, !.Tags = tags]
           c == [NoNestedCall EXCEPT !.op = "CreateNested", !.keyField = keyField,
                                     !.pre = childSeq, !.calls = nest.calls + 1,
                                     !.fkField = fkField, !.has = has,
                                     !.autoSave = autoSave, !.rels = rels]
       IN  IF ~ok
           THEN /\ nest' = [c EXCEPT !.root = root, !.err = "exec",
                                     !.log = <<NestedInsert("users", 0, FALSE)>>]
                /\ UNCHANGED <<users, rootSeq, companyOf>>
           ELSE /\ users' = users \cup {id}
                /\ rootSeq' = id
                /\ companyOf' = [u \in users \cup {id} |->
                                    IF u = id THEN root.CompanyId ELSE companyOf[u]]
                /\ nest' = [c EXCEPT !.root = [root EXCEPT !.ID = CreatedKey(has, 0, id)],
                                     !.rootId = id,
                                     !.log = <<NestedInsert("users", 0, TRUE)>>,
                                     !.pc = IF autoSave /\ rels # {} THEN "run" ELSE "done"]
    /\ UNCHANGED <<children, childSeq, userTags>>
    /\ UNCHANGED outsideNested

\* One iteration of the range over the relationships: nestedCreateHasOne or
\* nestedCreateHasMany. failAt is the child whose Create fails, 0 for none.
CN_Visit(field, failAt) ==
    /\ nest.op = "CreateNested" /\ nest.pc = "run"
    /\ field \in nest.rels \ nest.visited
    /\ LET cs == nest.root[field]
           n == Len(cs)
           fails == failAt \in 1..n
           made == IF fails THEN failAt - 1 ELSE n
           tried == IF fails THEN failAt ELSE n
           c == [nest EXCEPT !.visited = @ \cup {field}]
           finished(d) == IF d.visited = d.rels THEN [d EXCEPT !.pc = "done"] ELSE d
       IN  /\ failAt <= n
           /\ childSeq + made <= MaxChildRows
           /\ IF n = 0
              THEN /\ nest' = finished(c)
                   /\ UNCHANGED <<children, childSeq>>
              ELSE IF ~PkFieldIsValid(nest.keyField)
              THEN /\ nest' = [c EXCEPT !.err = "pk field not found", !.pc = "done"]
                   /\ UNCHANGED <<children, childSeq>>
              ELSE LET withFk == [k \in 1..n |->
                                     IF k <= tried
                                     THEN SetForeignKey(cs[k], nest.fkField, nest.root.ID)
                                     ELSE cs[k]]
                       after == [k \in 1..n |->
                                    IF k <= made
                                    THEN [withFk[k] EXCEPT
                                             !.ID = CreatedKey(nest.has, @, childSeq + k)]
                                    ELSE withFk[k]]
                       stmts == [k \in 1..tried |->
                                    NestedInsert(NestedTable(field), withFk[k].UserId, k <= made)]
                       d == [c EXCEPT !.root[field] = after, !.log = @ \o stmts]
                   IN  /\ children' = [id \in (DOMAIN children) \cup {childSeq + k : k \in 1..made} |->
                                          IF id \in DOMAIN children THEN children[id]
                                          ELSE [table |-> NestedTable(field),
                                                user_id |-> withFk[id - childSeq].UserId]]
                       /\ childSeq' = childSeq + made
                       /\ nest' = IF fails THEN [d EXCEPT !.err = "exec", !.pc = "done"]
                                  ELSE finished(d)
    /\ UNCHANGED <<users, rootSeq, companyOf, userTags>>
    /\ UNCHANGED outsideNested

\* ------------------------------------------------------------------------
\* Nested persistence: the helpers of one relationship
\* ------------------------------------------------------------------------

\* A row added to, or replaced in, a table kept as a function.
Put(f, k, v) == [x \in (DOMAIN f) \cup {k} |-> IF x = k THEN v ELSE f[x]]

\* The statement as the executor saw it: fk is the value bound for the foreign
\* key (or the key) column.
NestedStmt(verb, tbl, fk, ok) == [verb |-> verb, table |-> tbl, fk |-> fk, ok |-> ok]

\* The state a helper works on: storage, the record in memory and the
\* statements so far. failAt > 0 makes the failAt-th statement from here fail.
WorkOf(c, failAt) ==
    [users |-> users, companyOf |-> companyOf, children |-> children,
     childSeq |-> childSeq, userTags |-> userTags, root |-> c.root,
     log |-> c.log, err |-> "nil",
     fail |-> IF failAt = 0 THEN 0 ELSE Len(c.log) + failAt,
     keyField |-> c.keyField, fkField |-> c.fkField, has |-> c.has,
     autoDelete |-> c.autoDelete, nullify |-> c.nullify]
Work(failAt) == WorkOf(nest, failAt)

\* The steps of a helper without the early return: what follows runs whatever
\* the error of what came before.
ThenWithoutReturn(w, next) == next

\* if err != nil { return err }: nothing runs after an error.
Then(w, next) == IF w.err # "nil" THEN w ELSE next

\* c.DB().ExecContext / QueryContext
Send(w, verb, tbl, fk) ==
    LET ok == Len(w.log) + 1 # w.fail
    IN  [w EXCEPT !.log = Append(@, NestedStmt(verb, tbl, fk, ok)),
                  !.err = IF ok THEN "nil" ELSE "exec"]

\* sourceValue.FieldByName(toFieldName(info.PrimaryKey)).IsValid()
PkLookup(w) ==
    IF PkFieldIsValid(w.keyField) THEN w ELSE [w EXCEPT !.err = "pk field not found"]

\* Connection.Create of the record root[field][k]
CreateChild(w, field, k) ==
    LET rec == w.root[field][k]
        s == Send(w, "INSERT", NestedTable(field), rec.UserId)
        id == w.childSeq + 1
    IN  Then(s, [s EXCEPT !.children = Put(@, id, [table |-> NestedTable(field),
                                                   user_id |-> rec.UserId]),
                          !.childSeq = id,
                          !.root[field][k].ID = CreatedKey(w.has, @, id)])

\* Connection.Update of the record root[field][k]
UpdateChild(w, field, k) ==
    LET rec == w.root[field][k]
        s == Send(w, "UPDATE", NestedTable(field), rec.UserId)
        found == rec.ID \in DOMAIN w.children /\ w.children[rec.ID].table = NestedTable(field)
    IN  Then(s, IF found
                THEN [s EXCEPT !.children[rec.ID].user_id = rec.UserId]
                ELSE [s EXCEPT !.err = "ErrNotFound"])

\* Connection.Update of the root: UPDATE users SET company_id = ? WHERE id = ?
UpdateRoot(w) ==
    LET s == Send(w, "UPDATE", "users", w.root.CompanyId)
    IN  Then(s, IF w.root.ID \in w.users
                THEN [s EXCEPT !.companyOf[w.root.ID] = w.root.CompanyId]
                ELSE [s EXCEPT !.err = "ErrNotFound"])

\* sourceValue.FieldByName(toFieldName(rel.ForeignKey)) for users.company_id:
\* the field is declared in the style of the children's foreign key field.
ParentFkFieldIsValid(fkField) == toFieldName(<<"company", "id">>) = <<"Company", fkField[2]>>

\* fkField.Set(pkField) on the root, when the field is found.
SetParentForeignKey(w) ==
    IF ParentFkFieldIsValid(w.fkField)
    THEN [w EXCEPT !.root.CompanyId = w.root.Company[1].ID]
    ELSE w

JoinCount(j, pair) == IF pair \in DOMAIN j THEN j[pair] ELSE 0

\* Connection.Associate(ctx, source, "Tags", root.Tags[k], rel)
AssociateTag(w, k) ==
    LET p == PkLookup(w)
        pair == <<w.root.ID, w.root.Tags[k].ID>>
        s == Send(w, "INSERT", "user_tags", w.root.ID)
    IN  Then(p, Then(s, [s EXCEPT !.userTags = Put(@, pair, JoinCount(@, pair) + 1)]))

\* nestedCreateBelongsTo
nestedCreateBelongsTo(w) ==
    IF w.root.Company = <<>> THEN w
    ELSE LET a == CreateChild(w, "Company", 1)
             b == Then(a, PkLookup(a))
             c == Then(b, SetParentForeignKey(b))
         IN  Then(c, UpdateRoot(c))

\* nestedCreateManyToMany: the loop from its k-th element on
RECURSIVE CreateTags(_, _)
CreateTags(w, k) ==
    IF k > Len(w.root.Tags) \/ w.err # "nil" THEN w
    ELSE LET a == PkLookup(w)
             b == Then(a, IF a.root.Tags[k].ID = 0 THEN CreateChild(a, "Tags", k) ELSE a)
         IN  CreateTags(Then(b, AssociateTag(b, k)), k + 1)

nestedCreateManyToMany(w) ==
    IF w.root.Tags = <<>> THEN w ELSE Then(PkLookup(w), CreateTags(w, 1))

\* default: return fmt.Errorf("unsupported relationship type: %d", rel.Type)
Unsupported(w) == [w EXCEPT !.err = "unsupported relationship type"]

\* The range over the relationships without the return at a helper's error.
AfterHelperWithoutReturn(op, err, last) ==
    IF ~last THEN "run" ELSE IF op = "DeleteNested" THEN "delete" ELSE "done"

\* Where the call stands after a helper returned err: it returns at an error
\* or after the last entry of the map (DeleteNested goes on to delete the
\* root).
AfterHelper(op, err, last) ==
    IF err # "nil" THEN "done"
    ELSE IF ~last THEN "run"
    ELSE IF op = "DeleteNested" THEN "delete" ELSE "done"

\* One iteration of the range over the relationships has run helper w and
\* left its effects.
Visit(op, field, w) ==
    /\ nest.op = op /\ nest.pc = "run"
    /\ field \in nest.rels \ nest.visited
    /\ w.fail <= Len(w.log)
    /\ w.childSeq <= MaxChildRows
    /\ \A pair \in DOMAIN w.userTags : w.userTags[pair] <= MaxChildren
    /\ users' = w.users
    /\ companyOf' = w.companyOf
    /\ children' = w.children
    /\ childSeq' = w.childSeq
    /\ userTags' = w.userTags
    /\ nest' = [nest EXCEPT !.visited = @ \cup {field}, !.root = w.root, !.log = w.log,
                            !.err = w.err,
                            !.pc = AfterHelper(op, w.err,
                                               nest.visited \cup {field} = nest.rels)]
    /\ UNCHANGED rootSeq
    /\ UNCHANGED outsideNested

\* The statements one helper may send.
FailPoints == 0..(2 * MaxChildren + 2)

CN_BelongsTo(failAt) == Visit("CreateNested", "Company", nestedCreateBelongsTo(Work(failAt)))
CN_ManyToMany(failAt) == Visit("CreateNested", "Tags", nestedCreateManyToMany(Work(failAt)))
CN_Unsupported == Visit("CreateNested", "Other", Unsupported(Work(0)))

\* The records a caller passes in a relationship field: new ones (key 0) and
\* ones that carry the key of a stored row.
StoredIds(field) == {id \in DOMAIN children : children[id].table = NestedTable(field)}
Records(field) == {[Child EXCEPT !.ID = id] : id \in {0} \cup StoredIds(field)}
RecordSeqs(field, n) == UNION {[1..k -> Records(field)] : k \in 0..n}

\* ------------------------------------------------------------------------
\* Nested persistence: Connection.UpdateNested
\* ------------------------------------------------------------------------

\* Create when the key field is zero, Update otherwise.
CreateOrUpdate(w, field, k) ==
    IF w.root[field][k].ID = 0 THEN CreateChild(w, field, k) ELSE UpdateChild(w, field, k)

\* nestedUpdateHasOne / nestedUpdateHasMany: the records from the k-th on
RECURSIVE SaveChildren(_, _, _)
SaveChildren(w, field, k) ==
    IF k > Len(w.root[field]) \/ w.err # "nil" THEN w
    ELSE LET a == [w EXCEPT !.root[field][k] = SetForeignKey(@, w.fkField, w.root.ID)]
             b == PkLookup(a)
         IN  SaveChildren(Then(b, CreateOrUpdate(b, field, k)), field, k + 1)

nestedUpdateHasOne(w) ==
    IF w.root.Profile = <<>> THEN w ELSE Then(PkLookup(w), SaveChildren(w, "Profile", 1))

nestedUpdateHasMany(w) ==
    IF w.root.Posts = <<>> THEN w ELSE Then(PkLookup(w), SaveChildren(w, "Posts", 1))

\* nestedUpdateBelongsTo: the foreign key is set on the record in memory, after
\* UpdateNested has saved the root.
nestedUpdateBelongsTo(w) ==
    IF w.root.Company = <<>> THEN w
    ELSE LET a == PkLookup(w)
             b == Then(a, CreateOrUpdate(a, "Company", 1))
         IN  Then(b, SetParentForeignKey(b))

\* The tag ids the join table holds for the user.
CurrentIDs(j, user) == {pair[2] : pair \in {x \in DOMAIN j : x[1] = user}}

\* nestedUpdateManyToMany, the loop over the desired records from the k-th on:
\* currentIDs is what the SELECT returned and is not added to.
RECURSIVE SaveTags(_, _, _)
SaveTags(w, k, currentIDs) ==
    IF k > Len(w.root.Tags) \/ w.err # "nil" THEN w
    ELSE LET a == PkLookup(w)
             b == Then(a, CreateOrUpdate(a, "Tags", k))
             c == Then(b, IF b.root.Tags[k].ID \in currentIDs THEN b ELSE AssociateTag(b, k))
         IN  SaveTags(c, k + 1, currentIDs)

\* DELETE FROM user_tags WHERE user_id = ? AND tag_id = ?, for each stale id in
\* the order of the range over the map currentIDs.
RECURSIVE RemoveStale(_, _, _)
RemoveStale(w, stale, desc) ==
    IF stale = {} \/ w.err # "nil" THEN w
    ELSE LET id == CHOOSE x \in stale : \A y \in stale : IF desc THEN y <= x ELSE x <= y
             s == Send(w, "DELETE", "user_tags", w.root.ID)
             pair == <<w.root.ID, id>>
         IN  RemoveStale(Then(s, [s EXCEPT !.userTags =
                                      [p \in (DOMAIN @) \ {pair} |-> @[p]]]),
                         stale \ {id}, desc)

\* DELETE FROM user_tags WHERE user_id = ?
ClearAssociations(w) ==
    LET s == Send(w, "DELETE", "user_tags", w.root.ID)
    IN  Then(s, [s EXCEPT !.userTags =
                     [p \in {x \in DOMAIN @ : x[1] # w.root.ID} |-> @[p]]])

nestedUpdateManyToMany(w, desc) ==
    LET currentIDs == CurrentIDs(w.userTags, w.root.ID)
        q == Send(w, "SELECT", "user_tags", w.root.ID)
        r == Then(q, SaveTags(q, 1, currentIDs))
        newIDs == {r.root.Tags[k].ID : k \in 1..Len(r.root.Tags)}
    IN  Then(PkLookup(w),
             IF w.root.Tags = <<>> THEN ClearAssociations(w)
             ELSE Then(r, IF w.autoDelete THEN RemoveStale(r, currentIDs \ newIDs, desc)
                                          ELSE r))

\* UpdateNested(ctx, model, relationships, opts): Update of the root; with
\* AutoSave off, or no relationship, the call returns after it. The record
\* types and the driver are those of the earlier calls.
UN_Call(id, autoSave, autoDelete, profile, newPosts, company, tags, rels, ok) ==
    /\ nest.pc = "done"
    /\ nest.calls < MaxCalls
    /\ LET root == [Root(FALSE, 0) EXCEPT
                        !.ID = id,
                        !.CompanyId = IF id \in users THEN companyOf[id] ELSE 0,
                        !.Profile = profile, !.Posts = newPosts,
                        !.Company = company, !.Tags = tags]
           c == [NoNestedCall EXCEPT !.op = "UpdateNested", !.keyField = nest.keyField,
                                     !.fkField = nest.fkField, !.has = nest.has,
                                     !.autoSave = autoSave, !.autoDelete = autoDelete,
                                     !.rels = rels, !.root = root, !.rootId = id,
                                     !.pre = childSeq, !.calls = nest.calls + 1]
           w == UpdateRoot(WorkOf(c, IF ok THEN 0 ELSE 1))
       IN  /\ companyOf' = w.companyOf
           /\ nest' = [c EXCEPT !.log = w.log, !.err = w.err,
                                !.pc = IF w.err = "nil" /\ autoSave /\ rels # {}
                                       THEN "run" ELSE "done"]
    /\ UNCHANGED <<users, rootSeq, children, childSeq, userTags>>
    /\ UNCHANGED outsideNested

UN_HasOne(failAt) == Visit("UpdateNested", "Profile", nestedUpdateHasOne(Work(failAt)))
UN_HasMany(failAt) == Visit("UpdateNested", "Posts", nestedUpdateHasMany(Work(failAt)))
UN_BelongsTo(failAt) == Visit("UpdateNested", "Company", nestedUpdateBelongsTo(Work(failAt)))
UN_ManyToMany(failAt, desc) ==
    Visit("UpdateNested", "Tags", nestedUpdateManyToMany(Work(failAt), desc))
UN_Unsupported == Visit("UpdateNested", "Other", Unsupported(Work(0)))

\* ------------------------------------------------------------------------
\* Nested persistence: Connection.DeleteNested
\* ------------------------------------------------------------------------

\* The value of a foreign key column set to NULL.
SqlNull == 0 - 1

\* The rows of the field's table whose user_id is the key.
Referencing(rows, field, key) ==
    {id \in DOMAIN rows : rows[id].table = NestedTable(field) /\ rows[id].user_id = key}

\* UPDATE <table> SET user_id = NULL WHERE user_id = ?
NullifyChildren(w, field) ==
    LET s == Send(w, "UPDATE", NestedTable(field), w.root.ID)
        hit == Referencing(w.children, field, w.root.ID)
    IN  Then(s, [s EXCEPT !.children =
                     [id \in DOMAIN @ |-> IF id \in hit THEN [@[id] EXCEPT !.user_id = SqlNull]
                                          ELSE @[id]]])

\* DELETE FROM <table> WHERE user_id = ?
DeleteChildren(w, field) ==
    LET s == Send(w, "DELETE", NestedTable(field), w.root.ID)
        hit == Referencing(w.children, field, w.root.ID)
    IN  Then(s, [s EXCEPT !.children = [id \in (DOMAIN @) \ hit |-> @[id]]])

\* nestedDeleteHasOne / nestedDeleteHasMany
nestedDeleteHasMany(w, field) ==
    IF ~w.autoDelete THEN w
    ELSE Then(PkLookup(w),
              IF w.nullify THEN NullifyChildren(w, field) ELSE DeleteChildren(w, field))

\* DELETE FROM tags WHERE id IN (ids), when the SELECT returned any.
DeleteRelated(w, ids) ==
    IF ids = {} THEN w
    ELSE LET s == Send(w, "DELETE", "tags", w.root.ID)
         IN  Then(s, [s EXCEPT !.children =
                          [id \in {x \in DOMAIN @ : ~(x \in ids /\ @[x].table = "tags")}
                              |-> @[id]]])

\* nestedDeleteManyToMany: the join rows go first, then the SELECT of the
\* related ids reads the join table as the DELETE left it.
nestedDeleteManyToMany(w) ==
    LET a == ClearAssociations(w)
        q == Send(a, "SELECT", "user_tags", a.root.ID)
    IN  Then(PkLookup(w),
             Then(a, IF ~a.autoDelete THEN a
                     ELSE Then(q, DeleteRelated(q, CurrentIDs(q.userTags, q.root.ID)))))

\* DeleteNested(ctx, model, relationships, opts): the range over the
\* relationships starts; nothing is sent before its first iteration.
DN_Call(id, autoDelete, nullify, rels) ==
    /\ LET c == [NoNestedCall EXCEPT !.op = "DeleteNested", !.keyField = nest.keyField,
                                     !.fkField = nest.fkField, !.has = nest.has,
                                     !.autoDelete = autoDelete, !.nullify = nullify,
                                     !.rels = rels, !.root = [Root(FALSE, 0) EXCEPT !.ID = id],
                                     !.rootId = id, !.pre = childSeq,
                                     !.calls = nest.calls + 1,
                                     !.refs = Referencing(children, "Profile", id)
                                                \cup Referencing(children, "Posts", id),
                                     !.assoc = CurrentIDs(userTags, id)]
       IN  nest' = [c EXCEPT !.pc = IF rels = {} THEN "delete" ELSE "run"]
    /\ UNCHANGED <<users, rootSeq, children, childSeq, companyOf, userTags>>
    /\ UNCHANGED outsideNested

DN_HasOne(failAt) ==
    Visit("DeleteNested", "Profile", nestedDeleteHasMany(Work(failAt), "Profile"))
DN_HasMany(failAt) ==
    Visit("DeleteNested", "Posts", nestedDeleteHasMany(Work(failAt), "Posts"))
DN_ManyToMany(failAt) == Visit("DeleteNested", "Tags", nestedDeleteManyToMany(Work(failAt)))
\* The switch of DeleteNested has no case for BelongsTo and no default.
DN_Skip(field) == Visit("DeleteNested", field, Work(0))

\* return c.Delete(ctx, model): DELETE FROM users WHERE id = ?
DN_Delete(ok) ==
    /\ nest.op = "DeleteNested" /\ nest.pc = "delete"
    /\ LET s == Send(WorkOf(nest, IF ok THEN 0 ELSE 1), "DELETE", "users", nest.root.ID)
           found == nest.root.ID \in users
       IN  /\ users' = IF ok /\ found THEN users \ {nest.root.ID} ELSE users
           /\ companyOf' = [u \in users' |-> companyOf[u]]
           /\ nest' = [nest EXCEPT !.pc = "done", !.log = s.log,
                                   !.err = IF ~ok THEN "exec"
                                           ELSE IF ~found THEN "ErrNotFound" ELSE "nil"]
    /\ UNCHANGED <<rootSeq, children, childSeq, userTags>>
    /\ UNCHANGED outsideNested


NestedInit ==
    /\ users = {}
    /\ rootSeq = 0
    /\ children = <<>>
    /\ childSeq = 0
    /\ companyOf = <<>>
    /\ userTags = <<>>
    /\ nest = NoNestedCall

\* No nested call is running and the connection takes another one.
NestedIdle == nest.pc = "done" /\ nest.calls < MaxCalls

NestedNext ==
    \/ NestedIdle /\ rootSeq < MaxRoots /\ \E ok \in BOOLEAN, autoSave \in BOOLEAN :
           \* the inputs no step reads after a failed root INSERT, or with
           \* AutoSave off, are not varied
           LET cascades == ok /\ autoSave
           IN  \E has \in (IF ok THEN BOOLEAN ELSE {TRUE}),
                  keyField \in (IF cascades THEN KeyFields ELSE {<<"Id">>}),
                  fkField \in (IF cascades THEN FkFields ELSE {<<"User", "Id">>}),
                  rels \in (IF ok THEN NestedMaps ELSE {{}}) :
                   \* a field the map does not name is never read
                   \E profile \in (IF cascades /\ "Profile" \in rels THEN BOOLEAN
                                                                      ELSE {FALSE}),
                      nposts \in (IF cascades /\ "Posts" \in rels THEN 0..MaxChildren
                                                                  ELSE {0}),
                      company \in (IF cascades /\ "Company" \in rels
                                   THEN RecordSeqs("Company", 1) ELSE {<<>>}),
                      tags \in (IF cascades /\ "Tags" \in rels
                                THEN RecordSeqs("Tags", MaxChildren) ELSE {<<>>}) :
                       CN_Call(keyField, fkField, has, autoSave, profile, nposts,
                               company, tags, rels, ok)
    \/ \E field \in {"Profile", "Posts"}, failAt \in 0..MaxChildren : CN_Visit(field, failAt)
    \/ \E failAt \in FailPoints : CN_BelongsTo(failAt)
    \/ \E failAt \in FailPoints : CN_ManyToMany(failAt)
    \/ CN_Unsupported
    \/ NestedIdle /\ \E ok \in BOOLEAN, id \in users \cup {0}, autoSave \in BOOLEAN :
           LET cascades == ok /\ autoSave /\ id \in users
           IN  \E rels \in (IF ok /\ id \in users THEN NestedMaps ELSE {{}}) :
                   \E autoDelete \in (IF cascades /\ "Tags" \in rels THEN BOOLEAN
                                                                      ELSE {FALSE}),
                      profile \in (IF cascades /\ "Profile" \in rels
                                   THEN RecordSeqs("Profile", 1) ELSE {<<>>}),
                      newPosts \in (IF cascades /\ "Posts" \in rels
                                    THEN RecordSeqs("Posts", MaxChildren) ELSE {<<>>}),
                      company \in (IF cascades /\ "Company" \in rels
                                   THEN RecordSeqs("Company", 1) ELSE {<<>>}),
                      tags \in (IF cascades /\ "Tags" \in rels
                                THEN RecordSeqs("Tags", MaxChildren) ELSE {<<>>}) :
                       UN_Call(id, autoSave, autoDelete, profile, newPosts, company,
                               tags, rels, ok)
    \/ \E failAt \in FailPoints : UN_HasOne(failAt)
    \/ \E failAt \in FailPoints : UN_HasMany(failAt)
    \/ \E failAt \in FailPoints : UN_BelongsTo(failAt)
    \/ \E failAt \in FailPoints, desc \in BOOLEAN : UN_ManyToMany(failAt, desc)
    \/ UN_Unsupported
    \/ NestedIdle /\ \E id \in users \cup {0}, autoDelete \in BOOLEAN, nullify \in BOOLEAN,
                        rels \in NestedMaps : DN_Call(id, autoDelete, nullify, rels)
    \/ \E failAt \in FailPoints : DN_HasOne(failAt)
    \/ \E failAt \in FailPoints : DN_HasMany(failAt)
    \/ \E failAt \in FailPoints : DN_ManyToMany(failAt)
    \/ \E field \in {"Company", "Other"} : DN_Skip(field)
    \/ \E ok \in BOOLEAN : DN_Delete(ok)

StoredByCall(field) == {id \in StoredIds(field) : id > nest.pre}

DesiredIDs(c) == {c.root.Tags[k].ID : k \in 1..Len(c.root.Tags)}

\* C22: a step of UpdateNested removes a join row of the parent only with
\* AutoDelete on and only for a tag that is not in the new set: this is the
\* claim as stated.
C22_StaleOnlyWithAutoDelete ==
    [][(nest.op = "UpdateNested" /\ nest.pc = "run" /\ nest'.op = "UpdateNested")
          => \A pair \in DOMAIN userTags :
                 (pair[1] = nest.rootId /\ JoinCount(userTags', pair) < userTags[pair])
                     => nest.autoDelete /\ pair[2] \notin DesiredIDs(nest')]_vars

\* C23: when an UpdateNested whose map names the BelongsTo field, with a
\* company in it, returns nil, the stored root row's company_id is the key of
\* the company row, the one the call stored or the one it updated: this is the
\* claim as stated.
C23_BelongsToKeyResynced ==
    (/\ nest.op = "UpdateNested" /\ nest.pc = "done" /\ nest.err = "nil"
     /\ "Company" \in nest.visited /\ nest.root.Company # <<>>)
        => IF StoredByCall("Company") # {}
           THEN companyOf[nest.rootId] \in StoredByCall("Company")
           ELSE companyOf[nest.rootId] = nest.root.Company[1].ID

\* The DELETE of the root row.
IsRootDelete(stmt) == stmt.verb = "DELETE" /\ stmt.table = "users"

\* C24: in a DeleteNested the DELETE of the root is sent after every
\* relationship of the map was processed without error and nothing is sent
\* after it, and no step of a DeleteNested whose relationships have not all
\* been processed without error removes a root row.
C24_ParentDeletedLast ==
    [][(nest'.op = "DeleteNested")
          => /\ \A j \in 1..Len(nest'.log) :
                    IsRootDelete(nest'.log[j])
                        => /\ j = Len(nest'.log)
                           /\ nest'.visited = nest'.rels
                           /\ \A i \in 1..(j - 1) : nest'.log[i].ok
             /\ users' # users
                    => /\ nest.op = "DeleteNested" /\ nest.err = "nil"
                       /\ nest.visited = nest.rels]_vars

\* A DeleteNested over two relationships sent statements for them, deleted the
\* root last and returned nil.
C24_Witness ==
    /\ nest.op = "DeleteNested" /\ nest.pc = "done" /\ nest.err = "nil"
    /\ Cardinality(nest.rels) = 2 /\ Len(nest.log) >= 3
    /\ IsRootDelete(nest.log[Len(nest.log)])
    /\ nest.rootId \notin users

\* C25: after DeleteNested has processed the ManyToMany field with AutoDelete
\* on, no join row of the parent is left and every tag that was associated
\* with it when the call started is deleted: this is the claim as stated.
C25_RelatedRowsDeleted ==
    (/\ nest.op = "DeleteNested" /\ nest.err = "nil" /\ nest.autoDelete
     /\ "Tags" \in nest.visited)
        => /\ CurrentIDs(userTags, nest.rootId) = {}
           /\ nest.assoc \cap StoredIds("Tags") = {}

\* C26: after DeleteNested has processed the HasOne and HasMany fields of the
\* map, with NullifyOnDelete every row that referenced the parent is stored
\* with user_id NULL, whatever AutoDelete is; without it and with AutoDelete
\* those rows are deleted: this is the claim as stated.
C26_NullifyPolicy ==
    (/\ nest.op = "DeleteNested" /\ nest.err = "nil" /\ nest.pc \in {"delete", "done"}
     /\ {"Profile", "Posts"} \subseteq nest.rels /\ nest.rootId # 0)
        => /\ nest.nullify
                  => \A id \in nest.refs :
                         id \in DOMAIN children /\ children[id].user_id = SqlNull
           /\ (~nest.nullify /\ nest.autoDelete)
                  => nest.refs \cap DOMAIN children = {}

\* C27: a nested call whose map holds an entry of an unsupported kind never
\* returns nil, whatever the options: this is the claim as stated.
C27_UnsupportedFails ==
    (/\ nest.op \in {"CreateNested", "UpdateNested", "DeleteNested"}
     /\ nest.pc = "done" /\ "Other" \in nest.rels)
        => nest.err # "nil"

\* The statements of the call that stored a child row and succeeded.
ChildInserts(log) ==
    {j \in 1..Len(log) : /\ log[j].verb = "INSERT" /\ log[j].ok
                         /\ log[j].table \notin {"users", "user_tags"}}

\* C29: in a nested call only the last statement can have failed, a call that
\* ended on a failed statement returns its error, and what the statements
\* before it stored is still stored: the root row of a CreateNested and the
\* child rows of a CreateNested or UpdateNested, one for each INSERT that
\* succeeded.
C29_AbandonedOnFirstFailure ==
    (nest.op \in {"CreateNested", "UpdateNested", "DeleteNested"})
        => /\ \A j \in 1..(Len(nest.log) - 1) : nest.log[j].ok
           /\ (Len(nest.log) > 0 /\ ~nest.log[Len(nest.log)].ok)
                  => nest.pc = "done" /\ nest.err = "exec"
           /\ (nest.op = "CreateNested" /\ Len(nest.log) > 0 /\ nest.log[1].ok)
                  => nest.rootId \in users
           /\ nest.op # "DeleteNested"
                  => /\ (nest.pre + 1)..childSeq \subseteq DOMAIN children
                     /\ childSeq - nest.pre = Cardinality(ChildInserts(nest.log))

\* A CreateNested stored the root and a child, then a statement failed: the
\* call returned the error and both rows are stored.
C29_Witness ==
    /\ nest.op = "CreateNested" /\ nest.pc = "done" /\ nest.err = "exec"
    /\ Len(nest.log) >= 3 /\ ~nest.log[Len(nest.log)].ok
    /\ nest.visited # nest.rels
    /\ nest.rootId \in users /\ childSeq > nest.pre

\* C30: when an UpdateNested whose map names the ManyToMany field, with tags
\* in it that all carry a primary key once saved, returns nil, the join table
\* holds exactly one row (parent, tag) for each tag of the field: this is the
\* claim as stated.
C30_OneJoinRowPerChild ==
    (/\ nest.op = "UpdateNested" /\ nest.pc = "done" /\ nest.err = "nil"
     /\ "Tags" \in nest.visited /\ nest.root.Tags # <<>> /\ 0 \notin DesiredIDs(nest))
        => \A t \in DesiredIDs(nest) : JoinCount(userTags, <<nest.rootId, t>>) = 1

\* ------------------------------------------------------------------------
\* The migration ledger's steps: one caller, one call at a time
\* ------------------------------------------------------------------------

StartOutcomes == {"tableErr", "queryErr", "beginErr", "ok"}

MigInit ==
    /\ tableExists = FALSE
    /\ seq = 0
    /\ ledger = <<>>
    /\ call = [p \in Procs |-> IdleCall]

MigStep(p) ==
    \/ \E ok \in BOOLEAN : CreateMigrationsTable(p, ok)
    \/ \E name \in Names, rev \in Revs, ok \in BOOLEAN : AddMigration(p, name, rev, ok)
    \/ \E id \in Ids, t \in Times, ok \in BOOLEAN : MarkMigrationAsApplied(p, id, t, ok)
    \/ \E id \in Ids, ok \in BOOLEAN : MarkMigrationAsUnapplied(p, id, ok)
    \/ \E outcome \in StartOutcomes : MU_Start(p, outcome)
    \/ \E ok \in BOOLEAN : MU_ExecUp(p, ok)
    \/ \E t \in Times, ok \in BOOLEAN : MU_Mark(p, t, ok)
    \/ \E ok \in BOOLEAN : MU_Commit(p, ok)
    \/ \E outcome \in StartOutcomes \ {"tableErr"} : MD_Start(p, outcome)
    \/ \E ok \in BOOLEAN : MD_ExecDown(p, ok)
    \/ \E ok \in BOOLEAN : MD_Mark(p, ok)
    \/ \E ok \in BOOLEAN : MD_Commit(p, ok)

MigNext == \E p \in SeqProcs : MigStep(p)

\* Concurrent callers of MigrateUp on one *sql.DB: MigrationManager holds no
\* lock, so the steps of the two calls interleave freely. The first caller
\* also registers the migrations.
ConcurrentNext ==
    \/ \E name \in Names, rev \in Revs, ok \in BOOLEAN :
           AddMigration(CHOOSE p \in SeqProcs : TRUE, name, rev, ok)
    \/ \E p \in Procs :
           \/ \E outcome \in StartOutcomes : MU_Start(p, outcome)
           \/ \E ok \in BOOLEAN : MU_ExecUp(p, ok)
           \/ \E t \in Times, ok \in BOOLEAN : MU_Mark(p, t, ok)
           \/ \E ok \in BOOLEAN : MU_Commit(p, ok)

\* ------------------------------------------------------------------------
\* Specifications: the components share no state
\* ------------------------------------------------------------------------

Init == MigInit /\ TxInit /\ CrudInit /\ BuildInit /\ RelInit /\ NestedInit

SpecMig == Init /\ [][MigNext]_vars
SpecConcurrent == Init /\ [][ConcurrentNext]_vars
SpecTx == Init /\ [][TxNext]_vars
SpecCrud == Init /\ [][CrudNext]_vars
SpecBuild == Init /\ [][BuildNext]_vars
SpecRel == Init /\ [][RelNext]_vars
SpecNested == Init /\ [][NestedNext]_vars

\* ------------------------------------------------------------------------
\* Properties of the migration ledger
\* ------------------------------------------------------------------------

\* The migration was pending when the call started, and the call ran its up
\* script in a transaction that it committed.
AppliedBy(c, id) ==
    /\ c.op = "MigrateUp" /\ c.tx = "committed"
    /\ id \in DOMAIN c.pre /\ c.pre[id].AppliedAt = NULL
    /\ \E j \in 1..Len(c.log) : c.log[j].stmt = "up" /\ c.log[j].id = id

\* C28: of two MigrateUp calls on one ledger, at most one executes and commits
\* the up script of a migration that was pending: this is the claim as stated.
C28_AppliedAtMostOnce ==
    \A id \in Ids : ~(AppliedBy(call["a"], id) /\ AppliedBy(call["b"], id))

PendingIds(l) == {id \in DOMAIN l : l[id].AppliedAt = NULL}
AppliedIds(l) == {id \in DOMAIN l : l[id].AppliedAt # NULL}
StmtsAt(log, stmt) == {j \in 1..Len(log) : log[j].stmt = stmt}
StmtsOf(log, stmt, id) == {j \in 1..Len(log) : log[j].stmt = stmt /\ log[j].id = id}
MaxOf(S) == CHOOSE x \in S : \A y \in S : y <= x

\* C1: a MigrateUp that returns an error leaves every migration that was
\* Pending when it started Pending, the ones it had marked earlier in the run
\* included, its transaction rolled back; when the failing statement is an up
\* script or the marking step, the error names that statement's migration.
C1_MigrateUpFailureAborts ==
    \A p \in SeqProcs :
        LET c == call[p] IN
        (c.op = "MigrateUp" /\ c.pc = "done" /\ c.err # NoErr) =>
            /\ \A id \in PendingIds(c.pre) : id \in PendingIds(ledger)
            /\ c.tx # "committed"
            /\ c.err.kind \in {"apply", "markApplied"} =>
                 /\ c.tx = "rolledback"
                 /\ c.log[Len(c.log)].stmt = (IF c.err.kind = "apply" THEN "up" ELSE "markApplied")
                 /\ c.err.name = c.pre[c.log[Len(c.log)].id].Name

\* C1 witness: the run fails at its second migration, the first already marked.
C1_Witness ==
    \E p \in SeqProcs :
        /\ call[p].op = "MigrateUp" /\ call[p].pc = "done"
        /\ call[p].err.kind \in {"apply", "markApplied"}
        /\ call[p].i = 2
        /\ StmtsAt(call[p].log, "markApplied") # {}

\* C2: a MigrateUp that directly follows a MigrateUp that returned nil executes
\* no up script and leaves the ledger as it found it; and no MigrateUp at all
\* changes the applied_at of a migration that was Applied when it started.
C2_MigrateUpIdempotent ==
    \A p \in SeqProcs :
        LET c == call[p] IN
        c.op = "MigrateUp" =>
            /\ \A id \in AppliedIds(c.pre) :
                   id \in DOMAIN ledger /\ ledger[id].AppliedAt = c.pre[id].AppliedAt
            /\ c.afterUp =>
                 /\ StmtsAt(c.log, "up") = {}
                 /\ StmtsAt(c.log, "markApplied") = {}
                 /\ ledger = c.pre

\* C2 witness: the second of two runs has returned, the first having applied
\* two migrations.
C2_Witness ==
    \E p \in SeqProcs :
        /\ call[p].op = "MigrateUp" /\ call[p].pc = "done" /\ call[p].err = NoErr
        /\ call[p].afterUp
        /\ Cardinality(AppliedIds(ledger)) >= 2

\* C3: the statements of a MigrateUp: up scripts run in ascending id order over
\* the migrations Pending at the start, skipping none; each marking step
\* directly follows the successful up script of the same migration; all of
\* them run on the one transaction the call began; a migration is Applied after
\* the call only if it was marked in it.
C3_MigrateUpOrder ==
    \A p \in SeqProcs :
        LET c == call[p]
            log == c.log
        IN  c.op = "MigrateUp" =>
            /\ Cardinality(StmtsAt(log, "begin")) <= 1
            /\ \A j \in StmtsAt(log, "up") \cup StmtsAt(log, "markApplied") :
                   /\ log[j].tx
                   /\ \E b \in StmtsAt(log, "begin") : b < j
                   /\ log[j].id \in PendingIds(c.pre)
            /\ \A j \in StmtsAt(log, "up") :
                   /\ log[j].script = c.pre[log[j].id].Up
                   /\ \A k \in StmtsAt(log, "up") : j < k => log[j].id < log[k].id
                   /\ \A id \in PendingIds(c.pre) :
                          id < log[j].id =>
                              \E k \in StmtsOf(log, "markApplied", id) : k < j
            /\ \A j \in StmtsAt(log, "markApplied") :
                   j > 1 /\ log[j - 1].stmt = "up" /\ log[j - 1].id = log[j].id
            /\ \A id \in PendingIds(c.pre) :
                   (id \in DOMAIN ledger /\ ledger[id].AppliedAt # NULL) =>
                       /\ StmtsOf(log, "markApplied", id) # {}
                       /\ c.tx = "committed"
            /\ (c.pc = "done" /\ c.err = NoErr) =>
                   \A id \in PendingIds(c.pre) : id \in AppliedIds(ledger)

\* C3 witness: a run that applied two migrations and committed.
C3_Witness ==
    \E p \in SeqProcs :
        /\ call[p].op = "MigrateUp" /\ call[p].pc = "done" /\ call[p].err = NoErr
        /\ Cardinality(StmtsAt(call[p].log, "up")) >= 2

\* C4: a MigrateDown that returns nil has executed exactly one down script,
\* that of the Applied migration with the greatest id; that migration is now
\* Pending and every other row of the ledger is as it was.
C4_MigrateDownRevertsLast ==
    \A p \in SeqProcs :
        LET c == call[p] IN
        (c.op = "MigrateDown" /\ c.pc = "done" /\ c.err = NoErr) =>
            /\ AppliedIds(c.pre) # {}
            /\ LET g == MaxOf(AppliedIds(c.pre)) IN
                 /\ DOMAIN ledger = DOMAIN c.pre
                 /\ ledger[g] = [c.pre[g] EXCEPT !.AppliedAt = NULL]
                 /\ \A id \in DOMAIN ledger : id # g => ledger[id] = c.pre[id]
                 /\ Cardinality(StmtsAt(c.log, "down")) = 1
                 /\ \A j \in StmtsAt(c.log, "down") :
                        c.log[j].id = g /\ c.log[j].script = c.pre[g].Down

\* C4 witness: a revert with two migrations Applied before it.
C4_Witness ==
    \E p \in SeqProcs :
        /\ call[p].op = "MigrateDown" /\ call[p].pc = "done" /\ call[p].err = NoErr
        /\ Cardinality(AppliedIds(call[p].pre)) >= 2

C6_MigrateDownFailureKeepsApplied ==
    \A p \in SeqProcs :
        LET c == call[p] IN
        (c.op = "MigrateDown" /\ c.pc = "done"
            /\ c.err.kind \in {"revert", "markUnapplied", "commit"}) =>
            /\ c.tx = "rolledback"
            /\ ledger = c.pre
            /\ LET g == c.migrations[1].ID IN
                 /\ ledger[g].AppliedAt # NULL
                 /\ c.err.kind # "commit" => c.err.name = ledger[g].Name

\* C6 witness: the commit fails after the marking step succeeded.
C6_Witness ==
    \E p \in SeqProcs :
        /\ call[p].op = "MigrateDown" /\ call[p].pc = "done"
        /\ call[p].err.kind = "commit"
        /\ StmtsAt(call[p].log, "markUnapplied") # {}

\* The step commits a MigrateUp of caller p that ran the up script of id and
\* marked it.
ByMigrateUp(p, id) ==
    /\ call[p].op = "MigrateUp" /\ call[p].pc = "commit"
    /\ call'[p].pc = "done" /\ call'[p].err = NoErr
    /\ \E j \in StmtsOf(call[p].log, "markApplied", id) :
           call[p].log[j - 1] = Stmt("up", id, ledger[id].Up, TRUE)

\* The step commits a MigrateDown of caller p that ran the down script of id.
ByMigrateDown(p, id) ==
    /\ call[p].op = "MigrateDown" /\ call[p].pc = "commit"
    /\ call'[p].pc = "done" /\ call'[p].err = NoErr
    /\ Stmt("down", id, ledger[id].Down, TRUE) \in {call[p].log[j] : j \in 1..Len(call[p].log)}

\* The step is a call of op on id that returned nil.
ByMark(p, op, id) ==
    /\ Returned(call[p])
    /\ call'[p].op = op /\ call'[p].pc = "done" /\ call'[p].err = NoErr
    /\ call'[p].log[1].id = id

\* C7 as amended: applied_at goes from NULL to a time only by a MigrateUp that
\* ran the migration's up script or by MarkMigrationAsApplied on its id, from a
\* time to NULL only by a MigrateDown that ran its down script or by
\* MarkMigrationAsUnapplied on its id, from a time to another time only by
\* MarkMigrationAsApplied; a new row is Pending and no row is removed, so
\* AddMigration changes no applied_at.
C7_AppliedAtChanges ==
    [][ /\ DOMAIN ledger \subseteq DOMAIN ledger'
        /\ \A id \in DOMAIN ledger' \ DOMAIN ledger : ledger'[id].AppliedAt = NULL
        /\ \A id \in DOMAIN ledger :
             LET a == ledger[id].AppliedAt
                 b == ledger'[id].AppliedAt
             IN  a # b =>
                   \E p \in SeqProcs :
                       \/ a = NULL /\ ByMigrateUp(p, id)
                       \/ b = NULL /\ ByMigrateDown(p, id)
                       \/ b # NULL /\ ByMark(p, "MarkMigrationAsApplied", id)
                       \/ b = NULL /\ ByMark(p, "MarkMigrationAsUnapplied", id)
      ]_migVars

\* C7 as stated: applied_at changes only by MigrateUp (to a time) and
\* MigrateDown (to NULL).
C7_OnlyMigrateUpDown ==
    [][ \A id \in DOMAIN ledger :
             LET a == ledger[id].AppliedAt
                 b == ledger'[id].AppliedAt
             IN  a # b =>
                   \E p \in SeqProcs :
                       \/ a = NULL /\ ByMigrateUp(p, id)
                       \/ b = NULL /\ ByMigrateDown(p, id)
      ]_migVars

\* C7 witness: AddMigration has registered again a migration that is Applied,
\* and it is Applied still.
C7_Witness ==
    \E p \in SeqProcs :
        /\ call[p].op = "AddMigration" /\ call[p].pc = "done" /\ call[p].err = NoErr
        /\ \E id \in AppliedIds(ledger) :
               /\ ledger[id].Up = call[p].log[1].script
               /\ id # call[p].log[1].id

====
